---- MODULE Spec2Model ----
(***************************************************************************)
(* dynamic-ipset: the set update engine (dynamic_ipset/ipset.py) run       *)
(* against the kernel's named sets.  Every control-plane command that      *)
(* IPSetManager issues through _run is one atomic step; callers of         *)
(* update() interleave at those steps.                                     *)
(***************************************************************************)
EXTENDS Integers, Sequences, FiniteSets, TLC

VARIABLES
    sets,        \* the kernel: set name -> NoSet or [present, members, desc]
    pc,          \* per caller: position inside update()
    name,        \* per caller: argument name
    entries,     \* per caller: argument entries
    descriptor,  \* per caller: arguments ipset_type, family, max_entries
    exc,         \* per caller: exception pending or raised ("none" if none)
    ret,         \* per caller: value returned by update (None before it returns, else <<n>>)
    pre,         \* history: the target set as it was when the call started
    preTemp,     \* history: the staging set as it was when the call started
    failedStep,  \* history: the step of the try block that raised ("none" if none)
    envFault,    \* history: a command of this call exited non-zero (or could not be
                 \* run) for a reason the kernel's sets do not explain
    swapped,     \* history: the swap command of this call succeeded
    lastCleanup, \* history: how the call's last attempt to destroy the staging set ended
    race,        \* history: what two concurrent callers did to each other
    stage,       \* the update command: position inside cmd_update / _do_update
    list_config, \* the update command: the ListConfig that config.load returned
    content,     \* the update command: the text the fetch returned
    line_num,    \* the update command: lines of content parsed so far
    fetched,     \* the update command: entries and errors parsed so far
    exit_code,   \* the update command: its exit code (None while it runs)
    error,       \* the update command: the exception that ended it ("none" if none)
    calls,       \* history: fetches and set updates of this run of the command
    warnings,    \* the update command: the lines _do_update printed to stderr
    call,        \* a call of one of the other operations of IPSetManager
    issued,      \* history: the control-plane commands of the current call, in order
    cidr,        \* the argument of a call of validate_cidr
    canon,       \* the results of validate_cidr(cidr) and of validating its
                 \* result written as address/prefix again
    configs,     \* the Config Store: list name -> the record of config.d/<name>.conf
    unit_files,  \* the unit directory: list name -> its service and timer files
    timers,      \* systemd: list name -> whether its timer is enabled, and active
    last         \* the CLI command being run or last run: its arguments, its exit
                 \* code (None while it runs) and, as history, whether an unchecked
                 \* systemctl call of it failed (fault) and whether every command so
                 \* far was create, enable, disable, reload or delete and ended
                 \* with exit code 0 and without such a failure (clean)

engineVars == <<sets, pc, name, entries, descriptor, exc, ret,
                pre, preTemp, failedStep, envFault, swapped, lastCleanup>>
commandVars == <<stage, list_config, content, line_num, fetched, exit_code,
                 error, calls, warnings>>
managerVars == <<call, issued>>
callerVars == <<pc, name, entries, descriptor, exc, ret,
                pre, preTemp, failedStep, envFault, swapped, lastCleanup>>
cidrVars == <<cidr, canon>>
cliVars == <<configs, unit_files, timers, last>>

vars == <<sets, pc, name, entries, descriptor, exc, ret,
          pre, preTemp, failedStep, envFault, swapped, lastCleanup,
          race, stage, list_config, content, line_num, fetched, exit_code,
          error, calls, warnings, call, issued, cidr, canon,
          configs, unit_files, timers, last>>

-----------------------------------------------------------------------------
(* Bounds and program constants *)

MaxLen == 2                     \* longest entries list passed to update
MaxLines == 2                   \* most lines of a text given to _parse_ip_list
NAME_MAX == 31                  \* 1 + 30 of LIST_NAME_PATTERN
TEMP_PREFIX_LEN == 26           \* name[:26] in update
DEFAULT_MAX_ENTRIES == 65536
WARNING_LIMIT == 10             \* errors[:10] in _do_update


\* u1 runs its updates one after the other; c1 and c2 each run one update,
\* concurrently
Callers == {"u1", "c1", "c2"}
ConcCallers == {"c1", "c2"}

Letters ==
    {"a", "b", "c", "d", "e", "f", "g", "h", "i", "j", "k", "l", "m",
     "n", "o", "p", "q", "r", "s", "t", "u", "v", "w", "x", "y", "z",
     "A", "B", "C", "D", "E", "F", "G", "H", "I", "J", "K", "L", "M",
     "N", "O", "P", "Q", "R", "S", "T", "U", "V", "W", "X", "Y", "Z"}
Digits == {"0", "1", "2", "3", "4", "5", "6", "7", "8", "9"}
NameChars == Letters \cup Digits \cup {"_", "-"}
Newline == "\n"

\* names are strings; Char(n, i) is the one-character string n[i-1] of Python
Char(n, i) == SubSeq(n, i, i)

(* validate_list_name: `not name`, then re.match of                       *)
(* ^[a-zA-Z][a-zA-Z0-9_-]{0,30}$ ; Python's $ also matches just before a   *)
(* newline that ends the string.                                           *)
validate_list_name(n) ==
    /\ n # ""
    /\ LET body == IF Char(n, Len(n)) = Newline THEN SubSeq(n, 1, Len(n) - 1) ELSE n
       IN  /\ Len(body) >= 1
           /\ Len(body) <= NAME_MAX
           /\ Char(body, 1) \in Letters
           /\ \A i \in 2..Len(body) : Char(body, i) \in NameChars

(* temp_name = f"{name[:26]}_tmp" *)
temp_name(n) ==
    SubSeq(n, 1, IF Len(n) < TEMP_PREFIX_LEN THEN Len(n) ELSE TEMP_PREFIX_LEN) \o "_tmp"

-----------------------------------------------------------------------------
(* Strings, as Python's str methods use them in validator.py and          *)
(* fetcher.py.                                                             *)

\* the characters str.strip() and the regex class \s take for whitespace:
\* the last one is the unit separator (0x1f), one of the whitespace
\* characters at which str.splitlines() does not break a line
WhiteSpace == {" ", "\t", "\n", "\r", "\f", ""}

RECURSIVE LStrip(_)
LStrip(s) ==
    IF s # "" /\ Char(s, 1) \in WhiteSpace THEN LStrip(SubSeq(s, 2, Len(s))) ELSE s

RECURSIVE RStrip(_)
RStrip(s) ==
    IF s # "" /\ Char(s, Len(s)) \in WhiteSpace
    THEN RStrip(SubSeq(s, 1, Len(s) - 1)) ELSE s

\* s.strip()
strip(s) == RStrip(LStrip(s))

\* c in s, for a one-character c
Contains(s, c) == \E i \in 1..Len(s) : Char(s, i) = c

\* the position of the first character of s that is in the set cs (0 if none)
FirstOf(s, cs) ==
    IF \E i \in 1..Len(s) : Char(s, i) \in cs
    THEN CHOOSE i \in 1..Len(s) :
            Char(s, i) \in cs /\ \A j \in 1..(i - 1) : Char(s, j) \notin cs
    ELSE 0

\* s.split(sep), for a one-character sep
RECURSIVE split(_, _)
split(s, sep) ==
    IF FirstOf(s, {sep}) = 0 THEN <<s>>
    ELSE <<SubSeq(s, 1, FirstOf(s, {sep}) - 1)>>
            \o split(SubSeq(s, FirstOf(s, {sep}) + 1, Len(s)), sep)

\* sep.join(parts)
RECURSIVE join(_, _)
join(parts, sep) ==
    IF parts = <<>> THEN ""
    ELSE IF Len(parts) = 1 THEN parts[1]
    ELSE parts[1] \o sep \o join(Tail(parts), sep)

\* s.isascii() and s.isdigit()
IsDigits(s) == s # "" /\ \A i \in 1..Len(s) : Char(s, i) \in Digits

DigitVal(c) == CHOOSE v \in 0..9 : Char("0123456789", v + 1) = c

\* int(s) for a string of digits
RECURSIVE DecValue(_)
DecValue(s) ==
    IF s = "" THEN 0
    ELSE DecValue(SubSeq(s, 1, Len(s) - 1)) * 10 + DigitVal(Char(s, Len(s)))

\* str(n) for n >= 0
RECURSIVE DecStr(_)
DecStr(n) ==
    IF n < 10 THEN Char("0123456789", n + 1)
    ELSE DecStr(n \div 10) \o Char("0123456789", (n % 10) + 1)

HexDigits == Digits \cup {"a", "b", "c", "d", "e", "f", "A", "B", "C", "D", "E", "F"}
HexVal(c) ==
    IF c \in Digits THEN DigitVal(c)
    ELSE CHOOSE v \in 10..15 :
            Char("abcdef", v - 9) = c \/ Char("ABCDEF", v - 9) = c

\* int(s, 16) for at most four hexadecimal digits
RECURSIVE HexValue(_)
HexValue(s) ==
    IF s = "" THEN 0
    ELSE HexValue(SubSeq(s, 1, Len(s) - 1)) * 16 + HexVal(Char(s, Len(s)))

\* '%x' % n
RECURSIVE HexStr(_)
HexStr(n) ==
    IF n < 16 THEN Char("0123456789abcdef", n + 1)
    ELSE HexStr(n \div 16) \o Char("0123456789abcdef", (n % 16) + 1)

-----------------------------------------------------------------------------
(* The standard library's ipaddress module, as far as validate_cidr uses  *)
(* it.  An address is its version, its groups (four octets or eight       *)
(* hextets, most significant first) and its IPv6 scope id.                 *)

BadAddr == [version |-> 0, groups |-> <<>>, scope |-> ""]

\* IPv4Address._parse_octet: the octet's value, -1 for a ValueError
parse_octet(s) ==
    IF ~IsDigits(s) \/ Len(s) > 3 \/ (Len(s) > 1 /\ Char(s, 1) = "0") THEN -1
    ELSE IF DecValue(s) > 255 THEN -1
    ELSE DecValue(s)

\* a if it is not the value `bad`, else b
OrElse(a, b, bad) == IF a # bad THEN a ELSE b

\* the address of a version with its groups, BadAddr if the groups did not parse
AddressOf(version, groups, scope_id) ==
    IF groups = <<>> THEN BadAddr
    ELSE [version |-> version, groups |-> groups, scope |-> scope_id]

\* the values of four octets, <<>> if they are not four or one does not parse
OctetValues(octets) ==
    IF Len(octets) # 4 THEN <<>>
    ELSE IF \E i \in 1..4 : parse_octet(octets[i]) = -1 THEN <<>>
    ELSE [i \in 1..4 |-> parse_octet(octets[i])]

\* IPv4Address._ip_int_from_string: the four octets, <<>> for an AddressValueError
IPv4Octets(s) == IF s = "" THEN <<>> ELSE OctetValues(split(s, "."))

\* ipaddress.IPv4Address(s)
IPv4Address(s) ==
    IF Contains(s, "/") THEN BadAddr ELSE AddressOf(4, IPv4Octets(s), "")

\* IPv6Address._parse_hextet: the hextet's value, -1 for a ValueError
parse_hextet(s) ==
    IF s = "" \/ Len(s) > 4 \/ \E i \in 1..Len(s) : Char(s, i) \notin HexDigits
    THEN -1
    ELSE HexValue(s)

\* the hextets of parts[0:hi], `skipped` zero hextets, the hextets of parts[-lo:]
Hextets(parts, hi, lo, skipped) ==
    LET high == [i \in 1..hi |-> parse_hextet(parts[i])]
        low == [i \in 1..lo |-> parse_hextet(parts[Len(parts) - lo + i])]
    IN  IF (\E i \in 1..hi : high[i] = -1) \/ (\E i \in 1..lo : low[i] = -1)
        THEN <<>>
        ELSE high \o [i \in 1..skipped |-> 0] \o low

\* IPv6Address._ip_int_from_string after the IPv4 suffix is converted
IPv6FromParts(parts) ==
    LET n == Len(parts)
        skips == {i \in 2..(n - 1) : parts[i] = ""}
    IN  IF n > 9 \/ Cardinality(skips) > 1 THEN <<>>
        ELSE IF skips # {}
        THEN LET k == CHOOSE i \in skips : TRUE
                 hi == IF parts[1] = "" THEN k - 2 ELSE k - 1
                 lo == IF parts[n] = "" THEN n - k - 1 ELSE n - k
             IN  IF (parts[1] = "" /\ hi # 0) \/ (parts[n] = "" /\ lo # 0)
                    \/ 8 - (hi + lo) < 1
                 THEN <<>>
                 ELSE Hextets(parts, hi, lo, 8 - (hi + lo))
        ELSE IF n # 8 \/ parts[1] = "" \/ parts[n] = "" THEN <<>>
        ELSE Hextets(parts, 8, 0, 0)

\* the parts with the IPv4 suffix v4 of the last part written as two hextets
WithIPv4Suffix(parts, v4) ==
    IF v4 = <<>> THEN <<>>
    ELSE IPv6FromParts(SubSeq(parts, 1, Len(parts) - 1)
            \o <<HexStr(v4[1] * 256 + v4[2]), HexStr(v4[3] * 256 + v4[4])>>)

\* the hextets of the parts between the colons
HextetsOfParts(parts) ==
    IF Len(parts) < 3 THEN <<>>
    ELSE IF Contains(parts[Len(parts)], ".")
    THEN WithIPv4Suffix(parts, IPv4Octets(parts[Len(parts)]))
    ELSE IPv6FromParts(parts)

\* IPv6Address._ip_int_from_string: the eight hextets, <<>> for an AddressValueError
IPv6Hextets(s) == IF s = "" THEN <<>> ELSE HextetsOfParts(split(s, ":"))

\* ipaddress.IPv6Address(s): _split_scope_id, then _ip_int_from_string
IPv6Address(s) ==
    LET pct == FirstOf(s, {"%"})
        addr == IF pct = 0 THEN s ELSE SubSeq(s, 1, pct - 1)
        scope_id == IF pct = 0 THEN "" ELSE SubSeq(s, pct + 1, Len(s))
    IN  IF Contains(s, "/") THEN BadAddr
        ELSE IF pct # 0 /\ (scope_id = "" \/ Contains(scope_id, "%")) THEN BadAddr
        ELSE AddressOf(6, IPv6Hextets(addr), scope_id)

\* ipaddress.ip_address(s): IPv4Address, then IPv6Address, else ValueError
ip_address(s) == OrElse(IPv4Address(s), IPv6Address(s), BadAddr)

\* the length of the run of zero hextets that starts at position i
RECURSIVE ZeroRun(_, _)
ZeroRun(h, i) == IF i > Len(h) \/ h[i] # 0 THEN 0 ELSE 1 + ZeroRun(h, i + 1)

\* IPv6Address._compress_hextets: the first of the longest runs of zero
\* hextets becomes one empty part if it is longer than one hextet
compress_hextets(h) ==
    LET best_len == CHOOSE l \in 0..Len(h) :
                        /\ \E i \in 1..Len(h) : ZeroRun(h, i) = l
                        /\ \A i \in 1..Len(h) : ZeroRun(h, i) <= l
        start == CHOOSE i \in 1..Len(h) :
                    ZeroRun(h, i) = best_len /\ \A j \in 1..(i - 1) : ZeroRun(h, j) < best_len
        end == start + best_len
        text == [i \in 1..Len(h) |-> HexStr(h[i])]
    IN  IF best_len > 1
        THEN (IF start = 1 THEN <<"">> ELSE <<>>)
                \o SubSeq(text, 1, start - 1) \o <<"">> \o SubSeq(text, end, Len(h))
                \o (IF end = Len(h) + 1 THEN <<"">> ELSE <<>>)
        ELSE text

\* str(addr)
AddrStr(a) ==
    IF a.version = 4 THEN join([i \in 1..4 |-> DecStr(a.groups[i])], ".")
    ELSE join(compress_hextets(a.groups), ":")
            \o (IF a.scope # "" THEN "%" \o a.scope ELSE "")

GroupBits(version) == IF version = 4 THEN 8 ELSE 16
max_prefixlen(version) == IF version = 4 THEN 32 ELSE 128

RECURSIVE Pow2(_)
Pow2(k) == IF k = 0 THEN 1 ELSE 2 * Pow2(k - 1)

\* the address kept as it was given: no host bit is cleared
MaskGroups_unmasked(groups, w, prefixlen) == groups

\* packed & int(netmask), group by group: group i keeps its first
\* min(max(prefixlen - (i-1)*w, 0), w) bits
MaskGroups(groups, w, prefixlen) ==
    [i \in 1..Len(groups) |->
        LET over == prefixlen - (i - 1) * w
            keep == IF over < 0 THEN 0 ELSE IF over > w THEN w ELSE over
        IN  (groups[i] \div Pow2(w - keep)) * Pow2(w - keep)]

\* _prefix_from_prefix_string: the prefix length, -1 for a NetmaskValueError
prefix_from_prefix_string(s, version) ==
    IF ~IsDigits(s) THEN -1
    ELSE IF DecValue(s) > max_prefixlen(version) THEN -1
    ELSE DecValue(s)

\* the number of leading one bits of an octet that is ones followed by zeros, else -1
OctetOnes(o) ==
    IF \E k \in 0..8 : o = 256 - Pow2(8 - k)
    THEN CHOOSE k \in 0..8 : o = 256 - Pow2(8 - k)
    ELSE -1

\* _prefix_from_ip_int on four octets: ones followed by zeros, else -1
PrefixFromOctets(m) ==
    IF \E i \in 1..4 :
          /\ \A j \in 1..(i - 1) : m[j] = 255
          /\ OctetOnes(m[i]) # -1
          /\ \A j \in (i + 1)..4 : m[j] = 0
    THEN LET i == CHOOSE i \in 1..4 :
                    /\ \A j \in 1..(i - 1) : m[j] = 255
                    /\ OctetOnes(m[i]) # -1
                    /\ \A j \in (i + 1)..4 : m[j] = 0
         IN  8 * (i - 1) + OctetOnes(m[i])
    ELSE -1

\* the prefix length of four octets that are a netmask, else a hostmask
PrefixOfMask(m) ==
    IF m = <<>> THEN -1
    ELSE OrElse(PrefixFromOctets(m), PrefixFromOctets([i \in 1..4 |-> 255 - m[i]]), -1)

\* IPv4Network._prefix_from_ip_string: a dotted netmask, else a dotted hostmask
prefix_from_ip_string(s) == PrefixOfMask(IPv4Octets(s))

\* _make_netmask: the prefix length, -1 for a NetmaskValueError
make_netmask(s, version) ==
    OrElse(prefix_from_prefix_string(s, version),
           IF version = 6 THEN -1 ELSE prefix_from_ip_string(s),
           -1)

BadNet == [address |-> BadAddr, prefixlen |-> 0]

\* the network of an address and a prefix length: the address itself if it
\* has no host bit set, else a new address of the masked groups
MaskedNetwork(addr, prefixlen) ==
    IF addr = BadAddr \/ prefixlen = -1 THEN BadNet
    ELSE IF MaskGroups(addr.groups, GroupBits(addr.version), prefixlen) = addr.groups
    THEN [address |-> addr, prefixlen |-> prefixlen]
    ELSE [address |-> [version |-> addr.version,
                       groups |-> MaskGroups(addr.groups, GroupBits(addr.version),
                                             prefixlen),
                       scope |-> ""],
          prefixlen |-> prefixlen]

\* the network of the parts _split_optional_netmask gives
NetworkOfParts(parts, version) ==
    IF Len(parts) > 2 THEN BadNet
    ELSE MaskedNetwork(
            IF version = 4 THEN IPv4Address(parts[1]) ELSE IPv6Address(parts[1]),
            IF Len(parts) = 1 THEN max_prefixlen(version)
            ELSE make_netmask(parts[2], version))

\* IPv4Network(s, strict=False) or IPv6Network(s, strict=False)
Network(s, version) == NetworkOfParts(split(s, "/"), version)

\* ipaddress.ip_network(s, strict=False): IPv4Network, then IPv6Network, else ValueError
ip_network(s) == OrElse(Network(s, 4), Network(s, 6), BadNet)

-----------------------------------------------------------------------------
(* validator.py *)

\* the family taken from a default instead of the address
family_of_default(version) == "inet"

family_of(version) == IF version = 4 THEN "inet" ELSE "inet6"

\* validate_cidr raised ValidationError
Invalid == [ok |-> FALSE, addr |-> "", prefix |-> 0, family |-> ""]

\* the tuple validate_cidr returns for an address and a prefix length
Result(addr, prefixlen) ==
    IF addr = BadAddr THEN Invalid
    ELSE [ok |-> TRUE, addr |-> AddrStr(addr), prefix |-> prefixlen,
          family |-> family_of(addr.version)]

\* return str(addr), 32, "inet" or return str(addr), 128, "inet6"
BareResult(addr) == Result(addr, max_prefixlen(addr.version))

\* return str(network.network_address), network.prefixlen, family
NetworkResult(network) == Result(network.address, network.prefixlen)

\* validate_cidr giving every bare address the prefix length of IPv4
validate_cidr_bare32(token) ==
    IF ~Contains(strip(token), "/")
    THEN Result(ip_address(strip(token)), max_prefixlen(4))
    ELSE NetworkResult(ip_network(strip(token)))

\* validate_cidr(token): (network_address, prefix_length, family)
validate_cidr(token) ==
    IF ~Contains(strip(token), "/")
    THEN BareResult(ip_address(strip(token)))
    ELSE NetworkResult(ip_network(strip(token)))

\* entry.split(comment_char)[0].strip() for each comment character in turn
RECURSIVE strip_comments(_, _)
strip_comments(s, chars) ==
    IF chars = <<>> THEN s
    ELSE strip_comments(
            IF Contains(s, Head(chars)) THEN strip(split(s, Head(chars))[1]) ELSE s,
            Tail(chars))

\* parse_ip_entry raised ValidationError
BadEntry == [ok |-> FALSE, entry |-> "", family |-> ""]

\* f"{network_addr}/{prefix}"
Formatted(r) == r.addr \o "/" \o DecStr(r.prefix)

\* the tuple parse_ip_entry returns for what validate_cidr returned
EntryOf(r) ==
    IF ~r.ok THEN BadEntry
    ELSE [ok |-> TRUE, entry |-> Formatted(r), family |-> r.family]

\* the entry without its inline comment, validated and normalized
ParsedEntry(e) == IF e = "" THEN BadEntry ELSE EntryOf(validate_cidr(e))

\* parse_ip_entry(entry): (normalized_entry, family)
parse_ip_entry(entry) == ParsedEntry(strip_comments(strip(entry), <<"#", ";">>))

-----------------------------------------------------------------------------
(* fetcher.py: IPListFetcher._split_entries and the body of the loop of   *)
(* IPListFetcher._parse_ip_list                                            *)

COMMENT_CHARS == <<"#", ";">>

\* the line boundaries of str.splitlines()
LineBreaks == {"\n", "\r", "\f"}

\* content.splitlines()
RECURSIVE splitlines(_)
splitlines(s) ==
    IF s = "" THEN <<>>
    ELSE IF FirstOf(s, LineBreaks) = 0 THEN <<s>>
    ELSE LET i == FirstOf(s, LineBreaks)
             crlf == Char(s, i) = "\r" /\ i < Len(s) /\ Char(s, i + 1) = "\n"
         IN  <<SubSeq(s, 1, i - 1)>>
                \o splitlines(SubSeq(s, IF crlf THEN i + 2 ELSE i + 1, Len(s)))

\* line.startswith(chars)
startswith(line, chars) ==
    line # "" /\ \E i \in 1..Len(chars) : Char(line, 1) = chars[i]

\* the characters of the regex class [\s,]
Separators == WhiteSpace \cup {","}

RECURSIVE SkipSeparators(_)
SkipSeparators(s) ==
    IF s # "" /\ Char(s, 1) \in Separators THEN SkipSeparators(SubSeq(s, 2, Len(s)))
    ELSE s

\* re.split(r"[\s,]+", line)
RECURSIVE re_split(_)
re_split(s) ==
    IF FirstOf(s, Separators) = 0 THEN <<s>>
    ELSE <<SubSeq(s, 1, FirstOf(s, Separators) - 1)>>
            \o re_split(SkipSeparators(SubSeq(s, FirstOf(s, Separators), Len(s))))

NonBlank(p) == strip(p) # ""

\* the entries of a line that has no comment left
SplitLine(line) ==
    IF line = "" THEN <<>>
    ELSE IF Contains(line, " ") \/ Contains(line, ",") \/ Contains(line, "\t")
    THEN LET parts == SelectSeq(re_split(line), NonBlank)
         IN  [i \in 1..Len(parts) |-> strip(parts[i])]
    ELSE <<line>>

\* IPListFetcher._split_entries(line)
split_entries(line0) == SplitLine(strip_comments(line0, COMMENT_CHARS))

\* str(e) of the ValidationError parse_ip_entry raises for a part (the
\* library's explanation that follows "Invalid CIDR: <cidr> - " is left out)
error_message(part) ==
    LET e == strip_comments(strip(part), <<"#", ";">>)
    IN  IF e = "" THEN "Empty entry"
        ELSE IF ~Contains(strip(e), "/") THEN "Invalid IP address: " \o strip(e)
        ELSE "Invalid CIDR: " \o strip(e)

NoEntries == [entries |-> <<>>, errors |-> <<>>]

\* the body of the try statement for one part: the entry appended to
\* entries, or the message of the ValidationError appended to errors
Outcome(r, part, n, acc) ==
    IF r.ok THEN [acc EXCEPT !.entries = Append(@, r.entry)]
    ELSE [acc EXCEPT !.errors =
            Append(@, "Line " \o DecStr(n) \o ": " \o error_message(part))]

\* for part in parts: ... entries.append(entry) / errors.append(f"Line {line_num}: {e}")
RECURSIVE parse_parts(_, _, _)
parse_parts(parts, n, acc) ==
    IF parts = <<>> THEN acc
    ELSE parse_parts(Tail(parts), n,
            IF Head(parts) = "" THEN acc
            ELSE Outcome(parse_ip_entry(Head(parts)), Head(parts), n, acc))

\* the loop body without any comment handling: every line is split on
\* whitespace and commas and all its pieces are parsed
parse_line_no_comments(line0, n, acc) ==
    parse_parts(SelectSeq(re_split(strip(line0)), NonBlank), n, acc)

\* the loop body giving up on a line at its first bad token
parse_line_abort(line0, n, acc) ==
    IF strip(line0) = "" \/ startswith(strip(line0), COMMENT_CHARS) THEN acc
    ELSE LET parts == split_entries(strip(line0))
             bad == {i \in 1..Len(parts) : ~parse_ip_entry(parts[i]).ok}
         IN  IF bad = {} THEN parse_parts(parts, n, acc)
             ELSE parse_parts(SubSeq(parts, 1, CHOOSE i \in bad : \A j \in bad : i <= j),
                              n, acc)

\* one turn of the loop over content.splitlines(): blank lines and comment
\* lines are skipped, the other lines are split and their parts parsed
parse_line_into(line0, n, acc) ==
    LET line == strip(line0)
    IN  IF line = "" THEN acc
        ELSE IF startswith(line, COMMENT_CHARS) THEN acc
        ELSE parse_parts(split_entries(line), n, acc)

\* IPListFetcher._parse_ip_list(content) up to and including line k
RECURSIVE parse_ip_list_upto(_, _)
parse_ip_list_upto(text, k) ==
    IF k = 0 THEN NoEntries
    ELSE parse_line_into(splitlines(text)[k], k, parse_ip_list_upto(text, k - 1))

-----------------------------------------------------------------------------
(* The list names callers use: a short name, the name that is its staging  *)
(* name, a 30-character name ending in _tmp, and a name that starts with a *)
(* digit.                                                                  *)
Names == {"foo", "foo_tmp", "abcdefghijklmnopqrstuvwxyz_tmp", "1foo"}

ValidNames == {n \in Names : validate_list_name(n)}
SetNames == ValidNames \cup {temp_name(n) : n \in ValidNames}

Entries == {"10.0.0.0/8", "192.168.1.0/24"}
EntryLists == UNION {[1..k -> Entries] : k \in 0..MaxLen}

Inet == [type |-> "hash:net", family |-> "inet", maxelem |-> DEFAULT_MAX_ENTRIES]
Inet6 == [type |-> "hash:net", family |-> "inet6", maxelem |-> DEFAULT_MAX_ENTRIES]
Descriptors == {Inet, Inet6}

ToSet(es) == {es[i] : i \in 1..Len(es)}

\* a name the kernel has no set for
NoSet == [present |-> FALSE, members |-> {}, desc |-> Inet]
\* update has not returned a value
None == <<>>

-----------------------------------------------------------------------------
(* The kernel's side of each control-plane command.  env is the outcome    *)
(* of running the command itself: "ok", or "fail" for a non-zero exit      *)
(* that the kernel state does not explain.                                 *)

Members(s, n) == IF s[n] = NoSet THEN {} ELSE s[n].members

\* ipset list <n> -n : exit code 0
ListOk(s, n, env) == env = "ok" /\ s[n] # NoSet

\* ipset create <n> <type> family <f> maxelem <m>
CreateOk(s, n, env) == env = "ok" /\ s[n] = NoSet
KernelCreate(s, n, d) == [s EXCEPT ![n] = [present |-> TRUE, members |-> {}, desc |-> d]]

\* ipset destroy <n>
DestroyOk(s, n, env) == env = "ok" /\ s[n] # NoSet
KernelDestroy(s, n) == [s EXCEPT ![n] = NoSet]

\* the family of the address an entry is written in
EntryFamily(e) == IF Contains(e, ":") THEN "inet6" ELSE "inet"

\* ipset restore, fed "add <n> <entry> -exist" lines; the lines are
\* applied one by one, so a failing batch leaves the first k lines applied;
\* a set takes only addresses of its own family
RestoreOk(s, n, es, env) ==
    /\ env = "ok"
    /\ s[n] # NoSet
    /\ \A i \in 1..Len(es) : EntryFamily(es[i]) = s[n].desc.family
    /\ Cardinality(s[n].members \cup ToSet(es)) <= s[n].desc.maxelem
KernelRestore(s, n, es, k) ==
    IF s[n] = NoSet THEN s
    ELSE [s EXCEPT ![n].members = @ \cup {es[i] : i \in 1..k}]

\* ipset swap <a> <b> : the two sets exchange everything but their names
SwapOk(s, a, b, env) ==
    /\ env = "ok"
    /\ s[a] # NoSet
    /\ s[b] # NoSet
    /\ s[a].desc.type = s[b].desc.type
    /\ s[a].desc.family = s[b].desc.family
KernelSwap(s, a, b) == [s EXCEPT ![a] = s[b], ![b] = s[a]]

-----------------------------------------------------------------------------
\* no caller has called update yet
EngineInit ==
    /\ sets = [n \in SetNames |-> NoSet]
    /\ pc = [p \in Callers |-> "idle"]
    /\ name = [p \in Callers |-> ""]
    /\ entries = [p \in Callers |-> <<>>]
    /\ descriptor = [p \in Callers |-> Inet]
    /\ exc = [p \in Callers |-> "none"]
    /\ ret = [p \in Callers |-> None]
    /\ pre = [p \in Callers |-> NoSet]
    /\ preTemp = [p \in Callers |-> NoSet]
    /\ failedStep = [p \in Callers |-> "none"]
    /\ envFault = [p \in Callers |-> FALSE]
    /\ swapped = [p \in Callers |-> FALSE]
    /\ lastCleanup = [p \in Callers |-> "none"]
    /\ race = {}

\* the update command is not running
CommandIdle ==
    /\ stage = "idle"
    /\ list_config = [name |-> "", desc |-> Inet]
    /\ content = ""
    /\ line_num = 0
    /\ fetched = NoEntries
    /\ exit_code = None
    /\ error = "none"
    /\ calls = [fetch |-> 0, update |-> 0]
    /\ warnings = <<>>

\* validate_cidr has not been called
CidrIdle ==
    /\ cidr = ""
    /\ canon = <<>>

\* a call of an operation of IPSetManager other than update
NoCall ==
    [op |-> "none", name |-> "", desc |-> Inet, entries |-> <<>>, pc |-> "idle",
     raised |-> "none", returned |-> "", listed |-> {}, info |-> NoSet,
     pre |-> NoSet, fault |-> FALSE]

\* no operation of the manager has been called
ManagerIdle ==
    /\ call = NoCall
    /\ issued = <<>>

\* the names the list commands are given
CliNames == {"foo", "foo_tmp", "1foo"}

DEFAULT_PERIODIC == "*-*-* 0/3:00:00"
Periodics == {DEFAULT_PERIODIC, "daily"}

\* no config file, no unit files, a timer neither enabled nor active
NoRecord == [present |-> FALSE, periodic |-> "", enabled |-> FALSE]
NoUnits == [service |-> FALSE, timer |-> ""]
TimerOff == [enabled |-> FALSE, active |-> FALSE]

\* no command has been run
NoCommand ==
    [command |-> "none", name |-> "", periodic |-> "", no_fetch |-> FALSE,
     no_enable |-> FALSE, dry_run |-> FALSE, keep_ipset |-> FALSE,
     exit_code |-> <<0>>, error |-> "none", fault |-> FALSE, clean |-> TRUE]

CliIdle ==
    /\ configs = [n \in CliNames |-> NoRecord]
    /\ unit_files = [n \in CliNames |-> NoUnits]
    /\ timers = [n \in CliNames |-> TimerOff]
    /\ last = NoCommand

Init == EngineInit /\ CommandIdle /\ CidrIdle /\ ManagerIdle /\ CliIdle

-----------------------------------------------------------------------------
(* Bookkeeping shared by the steps of update().                            *)

Goto(p, label) == pc' = [pc EXCEPT ![p] = label]

\* an exception raised inside the try block of update: control enters the
\* except handler, which starts with self.exists(temp_name)
RaiseInTry(p, e) ==
    /\ exc' = [exc EXCEPT ![p] = e]
    /\ Goto(p, "cleanup_exists")

\* update leaves its except handler (or the handler itself raised e)
RaiseOut(p, e) ==
    /\ exc' = [exc EXCEPT ![p] = e]
    /\ Goto(p, "done")

\* update returning the number of members the target lists
ReturnListed(p) ==
    /\ ret' = [ret EXCEPT ![p] = <<Cardinality(Members(sets, name[p]))>>]
    /\ Goto(p, "done")

\* return len(entries)
ReturnLen(p) ==
    /\ ret' = [ret EXCEPT ![p] = <<Len(entries[p])>>]
    /\ Goto(p, "done")

Fault(p, step, raised, envBad) ==
    /\ failedStep' = [failedStep EXCEPT ![p] = IF raised /\ @ = "none" THEN step ELSE @]
    /\ envFault' = [envFault EXCEPT ![p] = @ \/ envBad]

\* update going from the creation of the staging set straight to the swap
AfterCreateTempSkipLoad(p) == "swap"

\* if entries: self.add_many(temp_name, entries)
AfterCreateTemp(p) == IF entries[p] # <<>> THEN "add_many" ELSE "swap"

EnvRun == {"ok", "fail"}             \* _run(check=True): exit code 0 or not
EnvList == {"ok", "fail", "raise"}   \* exists(): _run(check=False) may still raise

-----------------------------------------------------------------------------
(* The commands handed to _run, as the argument lists the operations build *)

ListArgs(n) == <<"list", n, "-n">>
CreateArgs(n, d) ==
    <<"create", n, d.type, "family", d.family, "maxelem", DecStr(d.maxelem)>>
DestroyArgs(n) == <<"destroy", n>>
SwapArgs(a, b) == <<"swap", a, b>>
RestoreArgs == <<"restore">>

\* "\n".join(lines) + "\n" for lines = [f"add {name} {entry} -exist" ...]
RECURSIVE restore_input(_, _)
restore_input(n, es) ==
    IF es = <<>> THEN "\n"
    ELSE IF Len(es) = 1 THEN "add " \o n \o " " \o es[1] \o " -exist\n"
    ELSE "add " \o n \o " " \o es[1] \o " -exist\n" \o restore_input(n, Tail(es))

\* one call of _run: the step of the operation that made it, its arguments,
\* its standard input ("" for none) and whether it raised
Command(step, args, input, raised) ==
    [step |-> step, args |-> args, input |-> input, raised |-> raised]

\* the callers whose commands are recorded in issued
Logged == {"u1"}

\* caller p runs a command
Issue(p, step, args, input, raised) ==
    issued' = IF p \in Logged THEN Append(issued, Command(step, args, input, raised))
              ELSE issued

\* caller p starts a call: the record starts afresh
IssueNone(p) == issued' = IF p \in Logged THEN <<>> ELSE issued

-----------------------------------------------------------------------------
(* update(name, entries, ipset_type, family, max_entries)                  *)

\* A caller is the update service of one configured list: its first call
\* picks the list, every later call is for the same list.
ListOf(p) == IF name[p] = "" THEN Names ELSE {name[p]}

\* the entries and the descriptor a caller passes: the concurrent callers
\* each have one fetched list and the default descriptor
ListsOf(p) ==
    IF p = "c1" THEN {<<"10.0.0.0/8">>}
    ELSE IF p = "c2" THEN {<<"192.168.1.0/24">>}
    ELSE EntryLists
DescriptorsOf(p) == IF p \in ConcCallers THEN {Inet} ELSE Descriptors

\* update(n, es, d) starts: validate_list_name(name) runs before the try block
update_enter(p, n, es, d) ==
    /\ name' = [name EXCEPT ![p] = n]
    /\ entries' = [entries EXCEPT ![p] = es]
    /\ descriptor' = [descriptor EXCEPT ![p] = d]
    /\ pre' = [pre EXCEPT ![p] = IF n \in SetNames THEN sets[n] ELSE NoSet]
    /\ preTemp' = [preTemp EXCEPT ![p] =
                     IF temp_name(n) \in SetNames THEN sets[temp_name(n)] ELSE NoSet]
    /\ IF validate_list_name(n)
       THEN /\ Goto(p, "create_main_exists")
            /\ exc' = [exc EXCEPT ![p] = "none"]
       ELSE RaiseOut(p, "ValidationError")
    /\ ret' = [ret EXCEPT ![p] = None]
    /\ failedStep' = [failedStep EXCEPT ![p] = "none"]
    /\ envFault' = [envFault EXCEPT ![p] = FALSE]
    /\ swapped' = [swapped EXCEPT ![p] = FALSE]
    /\ lastCleanup' = [lastCleanup EXCEPT ![p] = "none"]
    /\ IssueNone(p)
    /\ UNCHANGED sets

\* a caller calls update with arguments of its choice
update_call(p) ==
    /\ pc[p] \in {"idle", "done"}
    /\ \E n \in ListOf(p), es \in ListsOf(p), d \in DescriptorsOf(p) :
            update_enter(p, n, es, d)

\* self.create(name, ...): if self.exists(name): return False
create_main_exists(p) ==
    /\ pc[p] = "create_main_exists"
    /\ \E env \in EnvList :
        /\ IF env = "raise" THEN RaiseInTry(p, "IPSetError")
           ELSE /\ Goto(p, IF ListOk(sets, name[p], env)
                           THEN "reap_exists" ELSE "create_main_run")
                /\ UNCHANGED exc
        /\ Fault(p, "create_main", env = "raise", env # "ok")
        /\ Issue(p, "create_main", ListArgs(name[p]), "", env = "raise")
    /\ UNCHANGED <<sets, name, entries, descriptor, ret, pre, preTemp, swapped, lastCleanup>>

\* self.create(name, ...): self._run(["create", name, ...])
create_main_run(p) ==
    /\ pc[p] = "create_main_run"
    /\ \E env \in EnvRun :
        IF CreateOk(sets, name[p], env)
        THEN /\ sets' = KernelCreate(sets, name[p], descriptor[p])
             /\ Goto(p, "reap_exists")
             /\ Issue(p, "create_main", CreateArgs(name[p], descriptor[p]), "", FALSE)
             /\ UNCHANGED <<exc, failedStep, envFault>>
        ELSE /\ RaiseInTry(p, "IPSetError")
             /\ Fault(p, "create_main", TRUE, env # "ok")
             /\ Issue(p, "create_main", CreateArgs(name[p], descriptor[p]), "", TRUE)
             /\ UNCHANGED sets
    /\ UNCHANGED <<name, entries, descriptor, ret, pre, preTemp, swapped, lastCleanup>>

\* if self.exists(temp_name):
reap_exists(p) ==
    /\ pc[p] = "reap_exists"
    /\ \E env \in EnvList :
        /\ IF env = "raise" THEN RaiseInTry(p, "IPSetError")
           ELSE /\ Goto(p, IF ListOk(sets, temp_name(name[p]), env)
                           THEN "reap_destroy_exists" ELSE "create_temp_exists")
                /\ UNCHANGED exc
        /\ Fault(p, "reap", env = "raise", env # "ok")
        /\ Issue(p, "reap", ListArgs(temp_name(name[p])), "", env = "raise")
    /\ UNCHANGED <<sets, name, entries, descriptor, ret, pre, preTemp, swapped, lastCleanup>>

\* self.destroy(temp_name): validate, then if not self.exists(name): return False
reap_destroy_exists(p) ==
    /\ pc[p] = "reap_destroy_exists"
    /\ IF ~validate_list_name(temp_name(name[p]))
       THEN RaiseInTry(p, "ValidationError") /\ Fault(p, "reap", TRUE, FALSE) /\ UNCHANGED issued
       ELSE \E env \in EnvList :
            /\ IF env = "raise" THEN RaiseInTry(p, "IPSetError")
               ELSE /\ Goto(p, IF ListOk(sets, temp_name(name[p]), env)
                               THEN "reap_destroy_run" ELSE "create_temp_exists")
                    /\ UNCHANGED exc
            /\ Fault(p, "reap", env = "raise", env # "ok")
            /\ Issue(p, "reap", ListArgs(temp_name(name[p])), "", env = "raise")
    /\ UNCHANGED <<sets, name, entries, descriptor, ret, pre, preTemp, swapped, lastCleanup>>

\* self.destroy(temp_name): self._run(["destroy", name])
reap_destroy_run(p) ==
    /\ pc[p] = "reap_destroy_run"
    /\ \E env \in EnvRun :
        IF DestroyOk(sets, temp_name(name[p]), env)
        THEN /\ sets' = KernelDestroy(sets, temp_name(name[p]))
             /\ Goto(p, "create_temp_exists")
             /\ Issue(p, "reap", DestroyArgs(temp_name(name[p])), "", FALSE)
             /\ UNCHANGED <<exc, failedStep, envFault>>
        ELSE /\ RaiseInTry(p, "IPSetError")
             /\ Fault(p, "reap", TRUE, env # "ok")
             /\ Issue(p, "reap", DestroyArgs(temp_name(name[p])), "", TRUE)
             /\ UNCHANGED sets
    /\ UNCHANGED <<name, entries, descriptor, ret, pre, preTemp, swapped, lastCleanup>>

\* self.create(temp_name, ...): validate, then if self.exists(name): return False
create_temp_exists(p) ==
    /\ pc[p] = "create_temp_exists"
    /\ IF ~validate_list_name(temp_name(name[p]))
       THEN RaiseInTry(p, "ValidationError") /\ Fault(p, "create_temp", TRUE, FALSE)
            /\ UNCHANGED issued
       ELSE \E env \in EnvList :
            /\ IF env = "raise" THEN RaiseInTry(p, "IPSetError")
               ELSE /\ Goto(p, IF ListOk(sets, temp_name(name[p]), env)
                               THEN AfterCreateTemp(p) ELSE "create_temp_run")
                    /\ UNCHANGED exc
            /\ Fault(p, "create_temp", env = "raise", env # "ok")
            /\ Issue(p, "create_temp", ListArgs(temp_name(name[p])), "", env = "raise")
    /\ UNCHANGED <<sets, name, entries, descriptor, ret, pre, preTemp, swapped, lastCleanup>>

\* self.create(temp_name, ...): self._run(["create", name, ...])
create_temp_run(p) ==
    /\ pc[p] = "create_temp_run"
    /\ \E env \in EnvRun :
        IF CreateOk(sets, temp_name(name[p]), env)
        THEN /\ sets' = KernelCreate(sets, temp_name(name[p]), descriptor[p])
             /\ Goto(p, AfterCreateTemp(p))
             /\ Issue(p, "create_temp", CreateArgs(temp_name(name[p]), descriptor[p]), "", FALSE)
             /\ UNCHANGED <<exc, failedStep, envFault>>
        ELSE /\ RaiseInTry(p, "IPSetError")
             /\ Fault(p, "create_temp", TRUE, env # "ok")
             /\ Issue(p, "create_temp", CreateArgs(temp_name(name[p]), descriptor[p]), "", TRUE)
             /\ UNCHANGED sets
    /\ UNCHANGED <<name, entries, descriptor, ret, pre, preTemp, swapped, lastCleanup>>

\* the bulk load feeding the entries to the target instead of the staging set
add_many_into_target(p) ==
    /\ pc[p] = "add_many"
    /\ \E env \in EnvRun :
        IF RestoreOk(sets, name[p], entries[p], env)
        THEN /\ sets' = KernelRestore(sets, name[p], entries[p], Len(entries[p]))
             /\ Goto(p, "swap")
             /\ Issue(p, "add_many", RestoreArgs, restore_input(name[p], entries[p]), FALSE)
             /\ UNCHANGED <<exc, failedStep, envFault>>
        ELSE /\ \E k \in 0..(Len(entries[p]) - 1) :
                    sets' = KernelRestore(sets, name[p], entries[p], k)
             /\ RaiseInTry(p, "IPSetError")
             /\ Fault(p, "add_many", TRUE, env # "ok")
             /\ Issue(p, "add_many", RestoreArgs, restore_input(name[p], entries[p]), TRUE)
    /\ UNCHANGED <<name, entries, descriptor, ret, pre, preTemp, swapped, lastCleanup>>

\* self.add_many(temp_name, entries): one restore batch
add_many(p) ==
    /\ pc[p] = "add_many"
    /\ \E env \in EnvRun :
        IF RestoreOk(sets, temp_name(name[p]), entries[p], env)
        THEN /\ sets' = KernelRestore(sets, temp_name(name[p]), entries[p], Len(entries[p]))
             /\ Goto(p, "swap")
             /\ Issue(p, "add_many", RestoreArgs, restore_input(temp_name(name[p]), entries[p]), FALSE)
             /\ UNCHANGED <<exc, failedStep, envFault>>
        ELSE /\ \E k \in 0..(Len(entries[p]) - 1) :
                    sets' = KernelRestore(sets, temp_name(name[p]), entries[p], k)
             /\ RaiseInTry(p, "IPSetError")
             /\ Fault(p, "add_many", TRUE, env # "ok")
             /\ Issue(p, "add_many", RestoreArgs, restore_input(temp_name(name[p]), entries[p]), TRUE)
    /\ UNCHANGED <<name, entries, descriptor, ret, pre, preTemp, swapped, lastCleanup>>

\* self._run(["swap", temp_name, name])
swap(p) ==
    /\ pc[p] = "swap"
    /\ \E env \in EnvRun :
        IF SwapOk(sets, temp_name(name[p]), name[p], env)
        THEN /\ sets' = KernelSwap(sets, temp_name(name[p]), name[p])
             /\ swapped' = [swapped EXCEPT ![p] = TRUE]
             /\ Goto(p, "destroy_temp_exists")
             /\ Issue(p, "swap", SwapArgs(temp_name(name[p]), name[p]), "", FALSE)
             /\ UNCHANGED <<exc, failedStep, envFault>>
        ELSE /\ RaiseInTry(p, "IPSetError")
             /\ Fault(p, "swap", TRUE, env # "ok")
             /\ Issue(p, "swap", SwapArgs(temp_name(name[p]), name[p]), "", TRUE)
             /\ UNCHANGED <<sets, swapped>>
    /\ UNCHANGED <<name, entries, descriptor, ret, pre, preTemp, lastCleanup>>

\* self.destroy(temp_name) after the swap: if not self.exists(name): return False
destroy_temp_exists(p) ==
    /\ pc[p] = "destroy_temp_exists"
    /\ \E env \in EnvList :
        /\ IF env = "raise"
           THEN RaiseInTry(p, "IPSetError") /\ UNCHANGED ret
           ELSE IF ListOk(sets, temp_name(name[p]), env)
                THEN Goto(p, "destroy_temp_run") /\ UNCHANGED <<exc, ret>>
                ELSE ReturnLen(p) /\ UNCHANGED exc
        /\ Fault(p, "destroy_temp", env = "raise", env # "ok")
        /\ Issue(p, "destroy_temp", ListArgs(temp_name(name[p])), "", env = "raise")
        /\ lastCleanup' = [lastCleanup EXCEPT ![p] =
                             IF env # "ok" THEN "failed"
                             ELSE IF sets[temp_name(name[p])] = NoSet THEN "absent" ELSE @]
    /\ UNCHANGED <<sets, name, entries, descriptor, pre, preTemp, swapped>>

\* self.destroy(temp_name) after the swap: self._run(["destroy", name]); return len(entries)
destroy_temp_run(p) ==
    /\ pc[p] = "destroy_temp_run"
    /\ \E env \in EnvRun :
        IF DestroyOk(sets, temp_name(name[p]), env)
        THEN /\ sets' = KernelDestroy(sets, temp_name(name[p]))
             /\ ReturnLen(p)
             /\ lastCleanup' = [lastCleanup EXCEPT ![p] = "destroyed"]
             /\ Issue(p, "destroy_temp", DestroyArgs(temp_name(name[p])), "", FALSE)
             /\ UNCHANGED <<exc, failedStep, envFault>>
        ELSE /\ RaiseInTry(p, "IPSetError")
             /\ Fault(p, "destroy_temp", TRUE, env # "ok")
             /\ Issue(p, "destroy_temp", DestroyArgs(temp_name(name[p])), "", TRUE)
             /\ lastCleanup' = [lastCleanup EXCEPT ![p] = "failed"]
             /\ UNCHANGED <<sets, ret>>
    /\ UNCHANGED <<name, entries, descriptor, pre, preTemp, swapped>>

\* except Exception: if self.exists(temp_name): ... raise
cleanup_exists(p) ==
    /\ pc[p] = "cleanup_exists"
    /\ \E env \in EnvList :
        /\ IF env = "raise"
           THEN RaiseOut(p, "IPSetError")
           ELSE IF ListOk(sets, temp_name(name[p]), env)
                THEN Goto(p, "cleanup_destroy_exists") /\ UNCHANGED exc
                ELSE RaiseOut(p, exc[p])
        /\ envFault' = [envFault EXCEPT ![p] = @ \/ env # "ok"]
        /\ Issue(p, "cleanup", ListArgs(temp_name(name[p])), "", env = "raise")
        /\ lastCleanup' = [lastCleanup EXCEPT ![p] =
                             IF env # "ok" THEN "failed"
                             ELSE IF sets[temp_name(name[p])] = NoSet THEN "absent" ELSE @]
    /\ UNCHANGED <<sets, name, entries, descriptor, ret, pre, preTemp, failedStep, swapped>>

\* except handler: self.destroy(temp_name) up to its existence check;
\* an IPSetError raised here is swallowed, a ValidationError is not
cleanup_destroy_exists(p) ==
    /\ pc[p] = "cleanup_destroy_exists"
    /\ IF ~validate_list_name(temp_name(name[p]))
       THEN /\ RaiseOut(p, "ValidationError")
            /\ lastCleanup' = [lastCleanup EXCEPT ![p] = "failed"]
            /\ UNCHANGED <<envFault, issued>>
       ELSE \E env \in EnvList :
            /\ IF env # "raise" /\ ListOk(sets, temp_name(name[p]), env)
               THEN Goto(p, "cleanup_destroy_run") /\ UNCHANGED exc
               ELSE RaiseOut(p, exc[p])
            /\ envFault' = [envFault EXCEPT ![p] = @ \/ env # "ok"]
            /\ Issue(p, "cleanup", ListArgs(temp_name(name[p])), "", env = "raise")
            /\ lastCleanup' = [lastCleanup EXCEPT ![p] =
                                 IF env # "ok" THEN "failed"
                                 ELSE IF sets[temp_name(name[p])] = NoSet
                                      THEN "absent" ELSE @]
    /\ UNCHANGED <<sets, name, entries, descriptor, ret, pre, preTemp, failedStep, swapped>>

\* the except handler destroying the target instead of the staging set
cleanup_destroy_run_target(p) ==
    /\ pc[p] = "cleanup_destroy_run"
    /\ \E env \in EnvRun :
        /\ IF DestroyOk(sets, name[p], env)
           THEN /\ sets' = KernelDestroy(sets, name[p])
                /\ lastCleanup' = [lastCleanup EXCEPT ![p] = "destroyed"]
           ELSE /\ UNCHANGED sets
                /\ lastCleanup' = [lastCleanup EXCEPT ![p] = "failed"]
        /\ envFault' = [envFault EXCEPT ![p] = @ \/ env # "ok"]
        /\ Issue(p, "cleanup", DestroyArgs(name[p]), "", ~DestroyOk(sets, name[p], env))
    /\ RaiseOut(p, exc[p])
    /\ UNCHANGED <<name, entries, descriptor, ret, pre, preTemp, failedStep, swapped>>

\* except handler: self._run(["destroy", name]) then `except IPSetError: pass`, raise
cleanup_destroy_run(p) ==
    /\ pc[p] = "cleanup_destroy_run"
    /\ \E env \in EnvRun :
        /\ IF DestroyOk(sets, temp_name(name[p]), env)
           THEN /\ sets' = KernelDestroy(sets, temp_name(name[p]))
                /\ lastCleanup' = [lastCleanup EXCEPT ![p] = "destroyed"]
           ELSE /\ UNCHANGED sets
                /\ lastCleanup' = [lastCleanup EXCEPT ![p] = "failed"]
        /\ envFault' = [envFault EXCEPT ![p] = @ \/ env # "ok"]
        /\ Issue(p, "cleanup", DestroyArgs(temp_name(name[p])), "", ~DestroyOk(sets, temp_name(name[p]), env))
    /\ RaiseOut(p, exc[p])
    /\ UNCHANGED <<name, entries, descriptor, ret, pre, preTemp, failedStep, swapped>>

\* the process hosting the call is killed between two control-plane commands
Kill(p) ==
    /\ pc[p] \notin {"idle", "done"}
    /\ pc' = [pc EXCEPT ![p] = "idle"]
    /\ entries' = [entries EXCEPT ![p] = <<>>]
    /\ descriptor' = [descriptor EXCEPT ![p] = Inet]
    /\ exc' = [exc EXCEPT ![p] = "none"]
    /\ ret' = [ret EXCEPT ![p] = None]
    /\ pre' = [pre EXCEPT ![p] = NoSet]
    /\ preTemp' = [preTemp EXCEPT ![p] = NoSet]
    /\ failedStep' = [failedStep EXCEPT ![p] = "none"]
    /\ envFault' = [envFault EXCEPT ![p] = FALSE]
    /\ swapped' = [swapped EXCEPT ![p] = FALSE]
    /\ lastCleanup' = [lastCleanup EXCEPT ![p] = "none"]
    /\ IssueNone(p)
    /\ UNCHANGED <<sets, name>>

Step(p) ==
    \/ update_call(p)
    \/ create_main_exists(p)
    \/ create_main_run(p)
    \/ reap_exists(p)
    \/ reap_destroy_exists(p)
    \/ reap_destroy_run(p)
    \/ create_temp_exists(p)
    \/ create_temp_run(p)
    \/ add_many(p)
    \/ swap(p)
    \/ destroy_temp_exists(p)
    \/ destroy_temp_run(p)
    \/ cleanup_exists(p)
    \/ cleanup_destroy_exists(p)
    \/ cleanup_destroy_run(p)
    \/ Kill(p)

\* one caller at a time: every update runs to its end (or is killed) before the next
Next == Step("u1") /\ UNCHANGED <<race, call, commandVars, cidrVars, cliVars>>
Spec == Init /\ [][Next]_vars

\* the one update call of a concurrent caller
first_call(p) == pc[p] = "idle" /\ update_call(p)

StepOnce(p) ==
    \/ first_call(p)
    \/ create_main_exists(p)
    \/ create_main_run(p)
    \/ reap_exists(p)
    \/ reap_destroy_exists(p)
    \/ reap_destroy_run(p)
    \/ create_temp_exists(p)
    \/ create_temp_run(p)
    \/ add_many(p)
    \/ swap(p)
    \/ destroy_temp_exists(p)
    \/ destroy_temp_run(p)
    \/ cleanup_exists(p)
    \/ cleanup_destroy_exists(p)
    \/ cleanup_destroy_run(p)

Other(p) == CHOOSE q \in ConcCallers : q # p

\* what the step just taken by concurrent caller p adds to race: "overlap"
\* when p's call starts while the other caller's call is in progress, and
\* "reaped_live" when p's reap step destroys the staging set that the other
\* caller, working on the same name, has created and not yet swapped
RaceAfter(p) ==
    race
    \cup (IF pc[p] = "idle" /\ pc[Other(p)] \notin {"idle", "done"}
          THEN {"overlap"} ELSE {})
    \cup (IF /\ pc[p] = "reap_destroy_run"
             /\ sets' # sets
             /\ name[Other(p)] = name[p]
             /\ pc[Other(p)] \in {"add_many", "swap"}
          THEN {"reaped_live"} ELSE {})

\* two callers whose control-plane commands interleave
NextConc ==
    \E p \in ConcCallers :
        /\ StepOnce(p)
        /\ race' = RaceAfter(p)
        /\ UNCHANGED <<call, commandVars, cidrVars, cliVars>>
SpecConc == Init /\ [][NextConc]_vars

-----------------------------------------------------------------------------
(* The update command: CLI.run -> cmd_update -> _do_update (cli.py), with  *)
(* IPListFetcher.fetch (fetcher.py) and IPSetManager.update as caller u1.  *)

\* the list texts the remote source serves
Texts ==
    {"# comment\n192.168.1.0/24\n10.0.0.0/8\n",
     "10.0.0.1/8 bad\n",
     "invalid\n",
     "2001:db8::1/32 x\n192.168.1.0/24",
     "",
     "a b c d e f g h i j\n",
     "a b c d e f\n10.0.0.0/8\ng h i j k\n",
     "a b c d e f g h i j k l\n"}

\* the names the update command is run with, and the list the Config Store
\* holds: one configured list, whose record does not change between runs
CommandNames == {"foo", "abcdefghijklmnopqrstuvwxyz_tmp", "1foo"}
Configured ==
    IF list_config.name = ""
    THEN {[name |-> n, desc |-> d] : n \in CommandNames, d \in Descriptors}
    ELSE {list_config}

\* what urlopen / response.read raise
TransportErrors == {"HTTPError", "URLError", "TimeoutError"}

\* cmd_update: config.load(args.name), which validates the name first; a
\* ConfigError is reported and the command returns 1
cmd_update ==
    /\ stage \in {"idle", "exit"}
    /\ \E n \in CommandNames :
        IF ~validate_list_name(n)
        THEN /\ error' = "ValidationError"
             /\ exit_code' = <<1>>
             /\ stage' = "exit"
             /\ UNCHANGED list_config
        ELSE \/ /\ error' = "ConfigError"
                /\ exit_code' = <<1>>
                /\ stage' = "exit"
                /\ UNCHANGED list_config
             \/ /\ \E c \in Configured : c.name = n /\ list_config' = c
                /\ error' = "none"
                /\ exit_code' = None
                /\ stage' = "fetch"
    /\ content' = ""
    /\ line_num' = 0
    /\ fetched' = NoEntries
    /\ calls' = [fetch |-> 0, update |-> 0]
    /\ warnings' = <<>>
    /\ issued' = <<>>
    /\ UNCHANGED <<engineVars, race, call, cidrVars, cliVars>>

\* the fetch retrying once after a transport error
fetch_retry ==
    /\ stage = "fetch"
    /\ calls' = [calls EXCEPT !.fetch = @ + 1]
    /\ \E outcome \in {"ok"} \cup TransportErrors :
        IF outcome = "ok"
        THEN /\ \E text \in Texts : content' = text
             /\ stage' = "parse"
             /\ UNCHANGED <<error, exit_code>>
        ELSE /\ error' = "FetchError"
             /\ IF calls.fetch = 0
                THEN UNCHANGED <<stage, exit_code>>
                ELSE exit_code' = <<1>> /\ stage' = "exit"
             /\ UNCHANGED content
    /\ UNCHANGED <<list_config, line_num, fetched, warnings, engineVars, race,
                   managerVars, cidrVars, cliVars>>

\* IPListFetcher.fetch: urlopen and read; a transport error becomes a
\* FetchError, which nothing catches before CLI.run returns 1
fetch ==
    /\ stage = "fetch"
    /\ calls' = [calls EXCEPT !.fetch = @ + 1]
    /\ \E outcome \in {"ok"} \cup TransportErrors :
        IF outcome = "ok"
        THEN /\ \E text \in Texts : content' = text
             /\ stage' = "parse"
             /\ UNCHANGED <<error, exit_code>>
        ELSE /\ error' = "FetchError"
             /\ exit_code' = <<1>>
             /\ stage' = "exit"
             /\ UNCHANGED content
    /\ UNCHANGED <<list_config, line_num, fetched, warnings, engineVars, race,
                   managerVars, cidrVars, cliVars>>

\* the loop numbering the lines from 0, as enumerate does by default
parse_line_from_zero ==
    /\ stage = "parse"
    /\ line_num < Len(splitlines(content))
    /\ line_num' = line_num + 1
    /\ fetched' = parse_line_into(splitlines(content)[line_num + 1], line_num, fetched)
    /\ UNCHANGED <<stage, list_config, content, exit_code, error, calls, warnings,
                   engineVars, race, managerVars, cidrVars, cliVars>>

\* _parse_ip_list: one turn of the loop over content.splitlines()
parse_line ==
    /\ stage = "parse"
    /\ line_num < Len(splitlines(content))
    /\ line_num' = line_num + 1
    /\ fetched' = parse_line_into(splitlines(content)[line_num + 1], line_num + 1, fetched)
    /\ UNCHANGED <<stage, list_config, content, exit_code, error, calls, warnings,
                   engineVars, race, managerVars, cidrVars, cliVars>>

\* _parse_ip_list: return entries, errors
parse_return ==
    /\ stage = "parse"
    /\ line_num = Len(splitlines(content))
    /\ stage' = "fetched"
    /\ UNCHANGED <<list_config, content, line_num, fetched, exit_code, error, calls,
                   warnings, engineVars, race, managerVars, cidrVars, cliVars>>

\* the smaller of two numbers
Min(a, b) == IF a < b THEN a ELSE b

\* _do_update printing every parse error
parse_warnings_unbounded(errors) ==
    [i \in 1..Len(errors) |-> "Warning: " \o errors[i]]

\* for err in errors[:10]: print(f"Warning: {err}") and, if len(errors) > 10,
\* print(f"... and {len(errors) - 10} more warnings")
parse_warnings(errors) ==
    [i \in 1..Min(Len(errors), WARNING_LIMIT) |-> "Warning: " \o errors[i]]
        \o (IF Len(errors) > WARNING_LIMIT
            THEN <<"... and " \o DecStr(Len(errors) - WARNING_LIMIT) \o " more warnings">>
            ELSE <<>>)

\* _do_update calling update whatever was fetched
do_update_always ==
    /\ stage = "fetched"
    /\ warnings' = parse_warnings(fetched.errors)
    /\ update_enter("u1", list_config.name, fetched.entries, list_config.desc)
    /\ calls' = [calls EXCEPT !.update = @ + 1]
    /\ stage' = "update"
    /\ UNCHANGED <<exit_code, list_config, content, line_num, fetched, error, race,
                   call, cidrVars, cliVars>>

\* _do_update after the fetch: warnings, `if not entries: return 0`, else
\* self.ipset.update(list_config.name, entries, ...)
do_update ==
    /\ stage = "fetched"
    /\ warnings' = parse_warnings(fetched.errors)
                    \o (IF fetched.entries = <<>>
                        THEN <<"Warning: No valid entries found">> ELSE <<>>)
    /\ IF fetched.entries = <<>>
       THEN /\ exit_code' = <<0>>
            /\ stage' = "exit"
            /\ UNCHANGED <<calls, engineVars, issued>>
       ELSE /\ update_enter("u1", list_config.name, fetched.entries, list_config.desc)
            /\ calls' = [calls EXCEPT !.update = @ + 1]
            /\ stage' = "update"
            /\ UNCHANGED exit_code
    /\ UNCHANGED <<list_config, content, line_num, fetched, error, race, call, cidrVars, cliVars>>

\* the steps of update() between its entry and its return
InUpdate(p) ==
    \/ create_main_exists(p)
    \/ create_main_run(p)
    \/ reap_exists(p)
    \/ reap_destroy_exists(p)
    \/ reap_destroy_run(p)
    \/ create_temp_exists(p)
    \/ create_temp_run(p)
    \/ add_many(p)
    \/ swap(p)
    \/ destroy_temp_exists(p)
    \/ destroy_temp_run(p)
    \/ cleanup_exists(p)
    \/ cleanup_destroy_exists(p)
    \/ cleanup_destroy_run(p)

\* self.ipset.update(...) running inside _do_update
do_update_running ==
    /\ stage = "update"
    /\ InUpdate("u1")
    /\ UNCHANGED <<race, call, commandVars, cidrVars, cliVars>>

\* update returned: "Update complete", return 0; or its exception reaches
\* CLI.run, which prints it and returns 1
do_update_return ==
    /\ stage = "update"
    /\ pc["u1"] = "done"
    /\ IF exc["u1"] = "none"
       THEN exit_code' = <<0>> /\ UNCHANGED error
       ELSE exit_code' = <<1>> /\ error' = exc["u1"]
    /\ stage' = "exit"
    /\ UNCHANGED <<list_config, content, line_num, fetched, calls, warnings,
                   engineVars, race, managerVars, cidrVars, cliVars>>

\* the lines remote lists are made of
Lines ==
    {"192.168.1.0/24", "invalid", "10.0.0.0/8", "# comment", "  ; note 1.1.1.1",
     "", "   ", "8.8.8.8, 1.1.1.1", "192.168.1.0/24 10.0.0.0/8", "1.1.1.1 # inline",
     "bad 10.0.0.1/8,worse", ",2.2.2.2,", "a;b", "2001:db8::1/32\r", "\t#1.2.3.4",
     "1.1.1.12.2.2.2"}

\* the texts _parse_ip_list is given: up to MaxLines lines, each ended by \n
ParseTexts ==
    {join(ls, "\n") \o "\n" : ls \in UNION {[1..k -> Lines] : k \in 1..MaxLines}}
        \cup {""}

\* _parse_ip_list(content) is entered with some text
InitParse ==
    /\ EngineInit
    /\ CidrIdle
    /\ stage = "parse"
    /\ list_config = [name |-> "", desc |-> Inet]
    /\ content \in ParseTexts
    /\ line_num = 0
    /\ fetched = NoEntries
    /\ exit_code = None
    /\ error = "none"
    /\ calls = [fetch |-> 1, update |-> 0]
    /\ warnings = <<>>
    /\ ManagerIdle
    /\ CliIdle

NextParse ==
    \/ parse_line
    \/ parse_return

\* _parse_ip_list on every text of ParseTexts
SpecParse == InitParse /\ [][NextParse]_vars

\* the address parts of the strings validate_cidr is given
AddressTexts ==
    {"192.168.1.100", "10.0.0.1", "255.255.255.255", "0.0.0.0", "172.16.5.4",
     " 10.1.2.3", "192.168.01.1", "256.1.1.1", "1.2.3", "invalid", "",
     "2001:db8::1", "2001:DB8:0:0:1:0:0:1", "::", "::1", "fe80::1%eth0",
     "::ffff:1.2.3.4", "1:2:3:4:5:6:7:8", "ffff:ffff:ffff:ffff:ffff:ffff:ffff:ffff",
     "2001:db8:::1", "12345::1"}

\* what follows the address: nothing, every prefix length up to one more
\* than the longest, and suffixes that are no prefix length
SuffixTexts ==
    {""} \cup {"/" \o DecStr(k) : k \in 0..(max_prefixlen(6) + 1)}
         \cup {"/", "/x", "/-1", "/024", "/24 ", "/24/8", "/255.255.0.0", "/0.0.0.255"}

CidrTexts == {a \o x : a \in AddressTexts, x \in SuffixTexts}

\* validate_cidr is about to be called on some string
InitCidr ==
    /\ EngineInit
    /\ CommandIdle
    /\ ManagerIdle
    /\ cidr \in CidrTexts
    /\ canon = <<>>
    /\ CliIdle

\* validate_cidr(cidr)
canonicalize ==
    /\ canon = <<>>
    /\ canon' = <<validate_cidr(cidr)>>
    /\ UNCHANGED <<cidr, race, managerVars, engineVars, commandVars, cliVars>>

\* validate_cidr on the formatted result of the first call
recanonicalize ==
    /\ Len(canon) = 1
    /\ canon[1].ok
    /\ canon' = Append(canon, validate_cidr(Formatted(canon[1])))
    /\ UNCHANGED <<cidr, race, managerVars, engineVars, commandVars, cliVars>>

NextCidr ==
    \/ canonicalize
    \/ recanonicalize

\* validate_cidr on every string of CidrTexts
SpecCidr == InitCidr /\ [][NextCidr]_vars

-----------------------------------------------------------------------------
(* The operations of IPSetManager besides update, called one at a time by  *)
(* the caller that also calls update.  call is the record of the call:     *)
(* its arguments, where it stands (pc), what it raised or returned, the    *)
(* named set as it was when the call started (pre) and whether a command   *)
(* of the call ended otherwise than the kernel's sets explain (fault).     *)

\* the names the operations are called with: a list, the list whose name
\* is the staging name of the first, and three names that fail validation
ManagerNames == {"foo", "foo_tmp", "1foo", "", "_foo"}

\* ipset flush <n>
FlushOk(s, n, env) == env = "ok" /\ s[n] # NoSet
KernelFlush(s, n) == [s EXCEPT ![n].members = {}]

FlushArgs(n) == <<"flush", n>>
ListMembersArgs(n) == <<"list", n>>
ListTerseArgs(n) == <<"list", n, "-t">>

\* no call of the manager is in progress
CallFree == call.pc \in {"idle", "done"} /\ pc["u1"] = "idle"

\* an operation entered without looking at what validate_list_name said
EnteredUnchecked(op, n, d, es, valid, first) ==
    [NoCall EXCEPT !.op = op, !.name = n, !.desc = d, !.entries = es, !.pc = first]

\* an operation is entered: validate_list_name(name) where the operation
\* validates, then its first command
Entered(op, n, d, es, valid, first) ==
    [NoCall EXCEPT !.op = op, !.name = n, !.desc = d, !.entries = es,
                   !.pc = IF valid THEN first ELSE "done",
                   !.raised = IF valid THEN "none" ELSE "ValidationError",
                   !.pre = IF n \in SetNames THEN sets[n] ELSE NoSet]

Raise(e, bad) == [call EXCEPT !.pc = "done", !.raised = e, !.fault = @ \/ bad]
Return(v, bad) == [call EXCEPT !.pc = "done", !.returned = v, !.fault = @ \/ bad]
Continue(bad) == [call EXCEPT !.pc = "run", !.fault = @ \/ bad]

\* the call runs one command
Run(args, input, raised) ==
    issued' = Append(issued, Command(call.op, args, input, raised))

\* what a step of the manager leaves alone
ManagerFrame == UNCHANGED <<callerVars, race, commandVars, cidrVars, cliVars>>

\* create(name, ipset_type, family, max_entries) is called
create_call ==
    /\ CallFree
    /\ \E n \in ManagerNames, d \in Descriptors :
            call' = Entered("create", n, d, <<>>, validate_list_name(n), "exists")
    /\ issued' = <<>>
    /\ UNCHANGED sets
    /\ ManagerFrame

\* create without the existence check
create_exists_skipped ==
    /\ call.op = "create"
    /\ call.pc = "exists"
    /\ call' = Continue(FALSE)
    /\ UNCHANGED <<sets, issued>>
    /\ ManagerFrame

\* create: if self.exists(name): return False
create_exists ==
    /\ call.op = "create"
    /\ call.pc = "exists"
    /\ \E env \in EnvList :
        /\ call' = IF env = "raise" THEN Raise("IPSetError", TRUE)
                   ELSE IF ListOk(sets, call.name, env) THEN Return("False", FALSE)
                   ELSE Continue(env # "ok")
        /\ Run(ListArgs(call.name), "", env = "raise")
    /\ UNCHANGED sets
    /\ ManagerFrame

\* create: self._run(["create", name, ...]); return True
create_run ==
    /\ call.op = "create"
    /\ call.pc = "run"
    /\ \E env \in EnvRun :
        IF CreateOk(sets, call.name, env)
        THEN /\ sets' = KernelCreate(sets, call.name, call.desc)
             /\ call' = Return("True", FALSE)
             /\ Run(CreateArgs(call.name, call.desc), "", FALSE)
        ELSE /\ call' = Raise("IPSetError", env # "ok")
             /\ Run(CreateArgs(call.name, call.desc), "", TRUE)
             /\ UNCHANGED sets
    /\ ManagerFrame

\* destroy(name) is called
destroy_call ==
    /\ CallFree
    /\ \E n \in ManagerNames :
            call' = Entered("destroy", n, Inet, <<>>, validate_list_name(n), "exists")
    /\ issued' = <<>>
    /\ UNCHANGED sets
    /\ ManagerFrame

\* destroy: if not self.exists(name): return False
destroy_exists ==
    /\ call.op = "destroy"
    /\ call.pc = "exists"
    /\ \E env \in EnvList :
        /\ call' = IF env = "raise" THEN Raise("IPSetError", TRUE)
                   ELSE IF ListOk(sets, call.name, env) THEN Continue(FALSE)
                   ELSE Return("False", env # "ok")
        /\ Run(ListArgs(call.name), "", env = "raise")
    /\ UNCHANGED sets
    /\ ManagerFrame

\* destroy returning True without running the destroy command
destroy_run_skipped ==
    /\ call.op = "destroy"
    /\ call.pc = "run"
    /\ call' = Return("True", FALSE)
    /\ UNCHANGED <<sets, issued>>
    /\ ManagerFrame

\* destroy: self._run(["destroy", name]); return True
destroy_run ==
    /\ call.op = "destroy"
    /\ call.pc = "run"
    /\ \E env \in EnvRun :
        IF DestroyOk(sets, call.name, env)
        THEN /\ sets' = KernelDestroy(sets, call.name)
             /\ call' = Return("True", FALSE)
             /\ Run(DestroyArgs(call.name), "", FALSE)
        ELSE /\ call' = Raise("IPSetError", env # "ok")
             /\ Run(DestroyArgs(call.name), "", TRUE)
             /\ UNCHANGED sets
    /\ ManagerFrame

\* flush(name), list_entries(name) or get_info(name) is called
query_call ==
    /\ CallFree
    /\ \E op \in {"flush", "list_entries", "get_info"}, n \in ManagerNames :
            call' = Entered(op, n, Inet, <<>>, validate_list_name(n), "run")
    /\ issued' = <<>>
    /\ UNCHANGED sets
    /\ ManagerFrame

\* flush: self._run(["flush", name])
flush_run ==
    /\ call.op = "flush"
    /\ call.pc = "run"
    /\ \E env \in EnvRun :
        IF FlushOk(sets, call.name, env)
        THEN /\ sets' = KernelFlush(sets, call.name)
             /\ call' = Return("None", FALSE)
             /\ Run(FlushArgs(call.name), "", FALSE)
        ELSE /\ call' = Raise("IPSetError", env # "ok")
             /\ Run(FlushArgs(call.name), "", TRUE)
             /\ UNCHANGED sets
    /\ ManagerFrame

\* list_entries: self._run(["list", name]); the lines after "Members:"
list_entries_run ==
    /\ call.op = "list_entries"
    /\ call.pc = "run"
    /\ \E env \in EnvRun :
        IF ListOk(sets, call.name, env)
        THEN /\ call' = [Return("list", FALSE) EXCEPT !.listed = sets[call.name].members]
             /\ Run(ListMembersArgs(call.name), "", FALSE)
        ELSE /\ call' = Raise("IPSetError", env # "ok")
             /\ Run(ListMembersArgs(call.name), "", TRUE)
    /\ UNCHANGED sets
    /\ ManagerFrame

\* get_info: self._run(["list", name, "-t"]); type, family, maxelem and
\* the number of entries read from the header lines
get_info_run ==
    /\ call.op = "get_info"
    /\ call.pc = "run"
    /\ \E env \in EnvRun :
        IF ListOk(sets, call.name, env)
        THEN /\ call' = [Return("dict", FALSE) EXCEPT !.info = sets[call.name]]
             /\ Run(ListTerseArgs(call.name), "", FALSE)
        ELSE /\ call' = Raise("IPSetError", env # "ok")
             /\ Run(ListTerseArgs(call.name), "", TRUE)
    /\ UNCHANGED sets
    /\ ManagerFrame

\* add_many(name, entries) is called: if not entries: return 0
add_many_call ==
    /\ CallFree
    /\ \E n \in ManagerNames \cap ValidNames, es \in EntryLists :
            call' = IF es = <<>>
                    THEN [Entered("add_many", n, Inet, es, TRUE, "done")
                            EXCEPT !.returned = "0"]
                    ELSE Entered("add_many", n, Inet, es, TRUE, "run")
    /\ issued' = <<>>
    /\ UNCHANGED sets
    /\ ManagerFrame

\* add_many: self._run(["restore"], input_data=restore_input); return len(entries)
add_many_run ==
    /\ call.op = "add_many"
    /\ call.pc = "run"
    /\ \E env \in EnvRun :
        IF RestoreOk(sets, call.name, call.entries, env)
        THEN /\ sets' = KernelRestore(sets, call.name, call.entries, Len(call.entries))
             /\ call' = Return(DecStr(Len(call.entries)), FALSE)
             /\ Run(RestoreArgs, restore_input(call.name, call.entries), FALSE)
        ELSE /\ \E k \in 0..(Len(call.entries) - 1) :
                    sets' = KernelRestore(sets, call.name, call.entries, k)
             /\ call' = Raise("IPSetError", env # "ok")
             /\ Run(RestoreArgs, restore_input(call.name, call.entries), TRUE)
    /\ ManagerFrame

\* update(name, entries, ...) is called once the sets are set up, and its steps
manager_update ==
    /\ call.pc \in {"idle", "done"}
    /\ StepOnce("u1")
    /\ call' = NoCall
    /\ UNCHANGED <<race, commandVars, cidrVars, cliVars>>

NextManager ==
    \/ create_call
    \/ create_exists
    \/ create_run
    \/ destroy_call
    \/ destroy_exists
    \/ destroy_run
    \/ query_call
    \/ flush_run
    \/ list_entries_run
    \/ get_info_run
    \/ add_many_call
    \/ add_many_run
    \/ manager_update

\* the operations of the manager called one after the other
SpecManager == Init /\ [][NextManager]_vars

-----------------------------------------------------------------------------
(* validate_list_name on its own *)

\* c repeated k times
RECURSIVE Repeat(_, _)
Repeat(c, k) == IF k = 0 THEN "" ELSE c \o Repeat(c, k - 1)

\* the strings validate_list_name is given: a first character, a run of one
\* character up to the longest name allowed, and an ending
NameHeads == {"a", "Z", "1", "_", "-", ""}
NameFill == {"b", "7", "_", "-", ".", " "}
NameRuns == {0, 1, NAME_MAX - 2, NAME_MAX - 1, NAME_MAX}
NameTails == {"", "\n", "\n\n", "!"}
NameTexts ==
    {h \o Repeat(c, k) \o t :
        h \in NameHeads, c \in NameFill, k \in NameRuns, t \in NameTails}

\* validate_list_name is about to be called on some string
InitName ==
    /\ EngineInit
    /\ CommandIdle
    /\ CidrIdle
    /\ \E n \in NameTexts :
            call = [NoCall EXCEPT !.op = "validate_list_name", !.name = n, !.pc = "run"]
    /\ issued = <<>>
    /\ CliIdle

\* validate_list_name(name): True, or ValidationError
validate_name ==
    /\ call.op = "validate_list_name"
    /\ call.pc = "run"
    /\ call' = IF validate_list_name(call.name)
               THEN [call EXCEPT !.pc = "done", !.returned = "True"]
               ELSE [call EXCEPT !.pc = "done", !.raised = "ValidationError"]
    /\ UNCHANGED <<issued, race, engineVars, commandVars, cidrVars, cliVars>>

NextName == validate_name

\* validate_list_name on every string of NameTexts
SpecName == InitName /\ [][NextName]_vars

NextCommand ==
    \/ cmd_update
    \/ fetch
    \/ parse_line
    \/ parse_return
    \/ do_update
    \/ do_update_running
    \/ do_update_return

\* the update command run again and again, as the timer does
SpecCommand == Init /\ [][NextCommand]_vars

-----------------------------------------------------------------------------
(* The commands that manage the lists: CLI.run dispatching to cmd_create,  *)
(* cmd_delete, cmd_edit, cmd_reload, cmd_enable and cmd_disable (cli.py),  *)
(* over ConfigManager (config.py) and SystemdManager (systemd.py).  Each   *)
(* handler is one action; fault is the first call of the handler that the  *)
(* environment makes fail among those whose failure raises (a file that    *)
(* cannot be written, a systemctl or ipset command that exits non-zero),   *)
(* NoFault if there is none.                                               *)

NoFault == <<"", "none">>

\* the position of x in a sequence that holds it
Pos(order, x) == CHOOSE i \in 1..Len(order) : order[i] = x

\* the call `step` of a handler whose calls are `order` has run to its end
Passed(order, fault, step) ==
    fault = NoFault \/ Pos(order, step) < Pos(order, fault)

Range(order) == {order[i] : i \in 1..Len(order)}

\* the names with a first character validate_list_name accepts
ListNames == {n \in CliNames : validate_list_name(n)}

\* the command lines CLI.run is given: create with any of the names and the
\* default schedule, the other commands with the names create can record
Invocations ==
    {[NoCommand EXCEPT !.command = "create", !.name = n, !.periodic = DEFAULT_PERIODIC,
                       !.no_fetch = f, !.no_enable = e] :
        n \in CliNames, f \in BOOLEAN, e \in BOOLEAN}
    \cup {[NoCommand EXCEPT !.command = "delete", !.name = n, !.keep_ipset = k] :
            n \in ListNames, k \in BOOLEAN}
    \cup {[NoCommand EXCEPT !.command = c, !.name = n] :
            c \in {"edit", "enable", "disable"}, n \in ListNames}
    \cup {[NoCommand EXCEPT !.command = "reload", !.dry_run = d] : d \in BOOLEAN}

\* CLI.run: parse the arguments and find the handler of the command
run ==
    /\ last.exit_code # None
    /\ \E inv \in Invocations :
            last' = [inv EXCEPT !.exit_code = None, !.clean = last.clean]
    /\ UNCHANGED <<configs, unit_files, timers, engineVars, race, managerVars,
                   commandVars, cidrVars>>

Running(c) == last.command = c /\ last.exit_code = None

\* the handler returns code, or raises err, which CLI.run prints before it
\* returns 1; quiet: an unchecked systemctl call of the handler failed
Exit(code, err, quiet) ==
    last' = [NoCommand EXCEPT
                !.command = last.command, !.exit_code = <<code>>, !.error = err,
                !.fault = quiet,
                !.clean = last.clean /\ code = 0 /\ ~quiet /\ last.command # "edit"]

ErrorOf(fault) ==
    IF fault = NoFault THEN "none"
    ELSE IF fault[2] \in {"save", "config"} THEN "ConfigError"
    ELSE IF fault[2] \in {"update", "destroy"} THEN "IPSetError"
    ELSE "SystemdError"

\* ConfigManager.load_all: the names of the records, in the order of the
\* sorted file names
ConfigOrder == <<"1foo", "foo", "foo_tmp">>
IsConfigured(n) == configs[n].present
load_all == SelectSeq(ConfigOrder, IsConfigured)

\* SystemdManager.enable: systemctl enable <timer>, systemctl start <timer>
enable(t, order, fault, n) ==
    [enabled |-> t.enabled \/ Passed(order, fault, <<n, "enable">>),
     active |-> t.active \/ Passed(order, fault, <<n, "start">>)]

\* SystemdManager.disable: systemctl stop <timer>, systemctl disable <timer>,
\* both with check=False
disable(t, stopped, disabled) ==
    [enabled |-> t.enabled /\ ~disabled, active |-> t.active /\ ~stopped]

\* create_units leaving a timer file that exists as it is
create_units_once(u, periodic, order, fault, n) ==
    [service |-> u.service \/ Passed(order, fault, <<n, "service">>),
     timer |-> IF u.timer = "" /\ Passed(order, fault, <<n, "timer">>)
               THEN periodic ELSE u.timer]

\* SystemdManager.create_units: the service file and the timer file are
\* written, then systemd is told to reload
create_units(u, periodic, order, fault, n) ==
    [service |-> u.service \/ Passed(order, fault, <<n, "service">>),
     timer |-> IF Passed(order, fault, <<n, "timer">>) THEN periodic ELSE u.timer]

\* _do_update as cmd_create calls it, its exceptions caught: update replaces
\* the target by the fetched entries and leaves no staging set, or nothing
\* changes (the fetch failed, no entry was valid, the update failed)
InitialUpdates == {"installed", "unchanged"}
initial_update(s, n, outcome) ==
    IF outcome = "installed"
    THEN [s EXCEPT ![n] = [present |-> TRUE, members |-> {"10.0.0.0/8"}, desc |-> Inet],
                   ![temp_name(n)] = NoSet]
    ELSE s

CreateCalls(n) ==
    <<<<n, "save">>, <<n, "service">>, <<n, "timer">>, <<n, "daemon-reload">>,
      <<n, "enable">>, <<n, "start">>>>

\* cmd_create: config.save, systemd.create_units, the initial update unless
\* --no-fetch, systemd.enable unless --no-enable
cmd_create ==
    /\ Running("create")
    /\ LET n == last.name
       IN  IF configs[n].present
           THEN /\ Exit(1, "already exists", FALSE)
                /\ UNCHANGED <<configs, unit_files, timers, sets>>
           ELSE IF ~validate_list_name(n)
           THEN /\ Exit(1, "ValidationError", FALSE)
                /\ UNCHANGED <<configs, unit_files, timers, sets>>
           ELSE \E fault \in {NoFault} \cup Range(CreateCalls(n)),
                   outcome \in InitialUpdates :
                /\ last.no_enable => fault[2] \notin {"enable", "start"}
                /\ last.no_fetch => outcome = "unchanged"
                /\ configs' = IF Passed(CreateCalls(n), fault, <<n, "save">>)
                              THEN [configs EXCEPT ![n] =
                                        [present |-> TRUE, periodic |-> last.periodic,
                                         enabled |-> TRUE]]
                              ELSE configs
                /\ unit_files' = [unit_files EXCEPT ![n] =
                        create_units(@, last.periodic, CreateCalls(n), fault, n)]
                /\ sets' = IF Passed(CreateCalls(n), fault, <<n, "daemon-reload">>)
                           THEN initial_update(sets, n, outcome) ELSE sets
                /\ timers' = IF last.no_enable THEN timers
                             ELSE [timers EXCEPT ![n] = enable(@, CreateCalls(n), fault, n)]
                /\ Exit(IF fault = NoFault THEN 0 ELSE 1, ErrorOf(fault), FALSE)
    /\ UNCHANGED <<callerVars, race, managerVars, commandVars, cidrVars>>

DeleteCalls(n) ==
    <<<<n, "unlink">>, <<n, "daemon-reload">>, <<n, "config">>, <<n, "destroy">>>>

\* cmd_delete: systemd.delete_units (disable, unlink, daemon-reload),
\* config.delete, and ipset.destroy if the set exists unless --keep-ipset
cmd_delete ==
    /\ Running("delete")
    /\ LET n == last.name
       IN  IF ~configs[n].present
           THEN /\ Exit(1, "not found", FALSE)
                /\ UNCHANGED <<configs, unit_files, timers, sets>>
           ELSE \E fault \in {NoFault} \cup Range(DeleteCalls(n)),
                   stopped \in BOOLEAN, disabled \in BOOLEAN :
                /\ (last.keep_ipset \/ sets[n] = NoSet) => fault[2] # "destroy"
                /\ timers' = [timers EXCEPT ![n] = disable(@, stopped, disabled)]
                /\ unit_files' = IF Passed(DeleteCalls(n), fault, <<n, "unlink">>)
                                 THEN [unit_files EXCEPT ![n] = NoUnits] ELSE unit_files
                /\ configs' = IF Passed(DeleteCalls(n), fault, <<n, "config">>)
                              THEN [configs EXCEPT ![n] = NoRecord] ELSE configs
                /\ sets' = IF ~last.keep_ipset /\ fault = NoFault
                           THEN KernelDestroy(sets, n) ELSE sets
                /\ Exit(IF fault = NoFault THEN 0 ELSE 1, ErrorOf(fault),
                        ~(stopped /\ disabled))
    /\ UNCHANGED <<callerVars, race, managerVars, commandVars, cidrVars>>

\* cmd_edit: the editor is run on the config file of the list, which the
\* user leaves with some schedule and some enabled flag
cmd_edit ==
    /\ Running("edit")
    /\ LET n == last.name
       IN  IF ~configs[n].present
           THEN Exit(1, "not found", FALSE) /\ UNCHANGED configs
           ELSE /\ \E per \in Periodics, e \in BOOLEAN :
                    configs' = [configs EXCEPT ![n] =
                                    [present |-> TRUE, periodic |-> per, enabled |-> e]]
                /\ Exit(0, "none", FALSE)
    /\ UNCHANGED <<unit_files, timers, engineVars, race, managerVars, commandVars,
                   cidrVars>>

\* the calls of cmd_reload that raise when they fail, list by list
RECURSIVE ReloadCalls(_)
ReloadCalls(lists) ==
    IF lists = <<>> THEN <<>>
    ELSE <<<<Head(lists), "service">>, <<Head(lists), "timer">>,
           <<Head(lists), "daemon-reload">>>>
         \o (IF configs[Head(lists)].enabled
             THEN <<<<Head(lists), "enable">>, <<Head(lists), "start">>>> ELSE <<>>)
         \o ReloadCalls(Tail(lists))

\* cmd_reload: for every list of the Config Store, unless --dry-run:
\* systemd.create_units, then systemd.enable or systemd.disable as the
\* enabled flag of the record says
cmd_reload ==
    /\ Running("reload")
    /\ IF load_all = <<>> \/ last.dry_run
       THEN Exit(0, "none", FALSE) /\ UNCHANGED <<unit_files, timers>>
       ELSE \E fault \in {NoFault} \cup Range(ReloadCalls(load_all)),
               stopped \in BOOLEAN, disabled \in BOOLEAN :
            /\ unit_files' =
                [n \in CliNames |->
                    IF ~configs[n].present THEN unit_files[n]
                    ELSE create_units(unit_files[n], configs[n].periodic,
                                      ReloadCalls(load_all), fault, n)]
            /\ timers' =
                [n \in CliNames |->
                    IF ~configs[n].present THEN timers[n]
                    ELSE IF configs[n].enabled
                    THEN enable(timers[n], ReloadCalls(load_all), fault, n)
                    ELSE IF Passed(ReloadCalls(load_all), fault, <<n, "daemon-reload">>)
                    THEN disable(timers[n], stopped, disabled)
                    ELSE timers[n]]
            /\ Exit(IF fault = NoFault THEN 0 ELSE 1, ErrorOf(fault),
                    /\ ~(stopped /\ disabled)
                    /\ \E n \in CliNames :
                        /\ configs[n].present
                        /\ ~configs[n].enabled
                        /\ Passed(ReloadCalls(load_all), fault, <<n, "daemon-reload">>))
    /\ UNCHANGED <<configs, engineVars, race, managerVars, commandVars, cidrVars>>

EnableCalls(n) == <<<<n, "enable">>, <<n, "start">>>>

\* cmd_enable: systemd.enable if the list has a record; systemctl cannot
\* enable a timer that has no unit file
cmd_enable ==
    /\ Running("enable")
    /\ LET n == last.name
       IN  IF ~configs[n].present
           THEN Exit(1, "not found", FALSE) /\ UNCHANGED timers
           ELSE \E fault \in {NoFault} \cup Range(EnableCalls(n)) :
                /\ unit_files[n].timer = "" => fault = <<n, "enable">>
                /\ timers' = [timers EXCEPT ![n] = enable(@, EnableCalls(n), fault, n)]
                /\ Exit(IF fault = NoFault THEN 0 ELSE 1, ErrorOf(fault), FALSE)
    /\ UNCHANGED <<configs, unit_files, engineVars, race, managerVars, commandVars,
                   cidrVars>>

\* cmd_disable: systemd.disable if the list has a record
cmd_disable ==
    /\ Running("disable")
    /\ LET n == last.name
       IN  IF ~configs[n].present
           THEN Exit(1, "not found", FALSE) /\ UNCHANGED timers
           ELSE \E stopped \in BOOLEAN, disabled \in BOOLEAN :
                /\ timers' = [timers EXCEPT ![n] = disable(@, stopped, disabled)]
                /\ Exit(0, "none", ~(stopped /\ disabled))
    /\ UNCHANGED <<configs, unit_files, engineVars, race, managerVars, commandVars,
                   cidrVars>>

NextCli ==
    \/ run
    \/ cmd_create
    \/ cmd_delete
    \/ cmd_edit
    \/ cmd_reload
    \/ cmd_enable
    \/ cmd_disable

\* the list commands, run one after the other
SpecCli == Init /\ [][NextCli]_vars

-----------------------------------------------------------------------------
(* Vocabulary of the properties *)

Returned(p) == pc[p] = "done"
ValidCall(p) == pc[p] # "idle" /\ validate_list_name(name[p])
Target(p) == sets[name[p]]
Staging(p) == sets[temp_name(name[p])]
SameSet(a, b) == a.present = b.present /\ a.members = b.members
HoldsExactly(set, es) == set.present /\ set.members = ToSet(es)
PreSwapSteps == {"create_main", "reap", "create_temp", "add_many"}

\* C1: a call whose failing step comes before the swap returns with the
\* target exactly as it was before the call (same existence, same contents).
C1_FailureBeforeSwapLeavesTarget ==
    (Returned("u1") /\ ValidCall("u1") /\ failedStep["u1"] \in PreSwapSteps)
        => SameSet(Target("u1"), pre["u1"])

\* C2: with a target holding A, a failed bulk load makes update raise
\* IPSetError and return with the target still holding exactly A and no
\* staging set.
C2_FailedLoadLeavesTargetAndNoStaging ==
    (Returned("u1") /\ ValidCall("u1") /\ pre["u1"].present
        /\ failedStep["u1"] = "add_many")
        => /\ exc["u1"] = "IPSetError"
           /\ SameSet(Target("u1"), pre["u1"])
           /\ ~Staging("u1").present

\* C3: when every control-plane step of the call succeeds, the target holds
\* exactly the new entries afterwards and the staging set is destroyed.
C3_SuccessInstallsNewEntries ==
    (Returned("u1") /\ ValidCall("u1") /\ ret["u1"] # None /\ ~envFault["u1"])
        => /\ HoldsExactly(Target("u1"), entries["u1"])
           /\ ~Staging("u1").present

\* C4: at every point of a call on an existing target holding A, a reader of
\* the target sees exactly A or exactly the complete new entry list.
C4_ReaderSeesOldOrNew ==
    (ValidCall("u1") /\ pre["u1"].present)
        => /\ Target("u1").present
           /\ Target("u1").members \in {pre["u1"].members, ToSet(entries["u1"])}

\* C5: at every point of a call with a non-empty entry list, a target that
\* exists is not empty unless it was already empty before the call.
C5_TargetNeverExposedEmpty ==
    (ValidCall("u1") /\ entries["u1"] # <<>> /\ Target("u1").present)
        => \/ Target("u1").members # {}
           \/ (pre["u1"].present /\ pre["u1"].members = {})

\* C6: a call that finds a staging set left behind by an earlier run, and
\* whose commands all succeed, returns successfully with the target holding
\* exactly the new entries and no staging set.
C6_StaleStagingDoesNotBlock ==
    (Returned("u1") /\ ValidCall("u1") /\ preTemp["u1"].present
        /\ ~envFault["u1"] /\ failedStep["u1"] = "none")
        => /\ ret["u1"] # None
           /\ HoldsExactly(Target("u1"), entries["u1"])
           /\ ~Staging("u1").present

\* C7: a call that returns either succeeded after the swap with the target
\* holding the new entries, or raised with the target's contents as before
\* the call.
C7_TwoTerminalOutcomes ==
    (Returned("u1") /\ ValidCall("u1"))
        => \/ /\ ret["u1"] # None
              /\ exc["u1"] = "none"
              /\ swapped["u1"]
              /\ HoldsExactly(Target("u1"), entries["u1"])
           \/ /\ ret["u1"] = None
              /\ exc["u1"] # "none"
              /\ Members(sets, name["u1"]) = pre["u1"].members

\* C8: once the swap of a call has succeeded, no later step of that call
\* changes the target, also when the final destroy of the staging set fails.
C8_NothingAfterSwapTouchesTarget ==
    [][(swapped["u1"] /\ swapped'["u1"])
        => sets'[name["u1"]] = sets[name["u1"]]]_vars

C10_DifferentNamesIndependent ==
    (/\ \A p \in ConcCallers : Returned(p) /\ ValidCall(p) /\ ~envFault[p]
     /\ name["c1"] # name["c2"])
        => \A p \in ConcCallers :
              ret[p] # None /\ HoldsExactly(Target(p), entries[p])

\* C11: the engine does not serialize two concurrent calls for the same
\* name: one call can reap the staging set the other is populating, and
\* after both have returned the target can hold the entry list of neither
\* call (C11_Witness); when no command fails for a reason outside the
\* kernel's sets, the target ends with the entry list of neither call only
\* if the two calls overlapped.
C11_NeitherListOnlyAfterOverlap ==
    (/\ \A p \in ConcCallers : Returned(p) /\ ValidCall(p) /\ ~envFault[p]
     /\ name["c1"] = name["c2"]
     /\ temp_name(name["c1"]) # name["c1"]
     /\ \A p \in ConcCallers : ~HoldsExactly(Target(p), entries[p]))
        => "overlap" \in race

\* two calls for the same name have returned, one of them with success; one
\* reaped the staging set the other was populating, and the target holds
\* the entries of both lists together
C11_Witness ==
    /\ \A p \in ConcCallers : Returned(p) /\ ValidCall(p) /\ ~envFault[p]
    /\ name["c1"] = name["c2"]
    /\ temp_name(name["c1"]) # name["c1"]
    /\ "reaped_live" \in race
    /\ \E p \in ConcCallers : ret[p] # None
    /\ Target("c1").present
    /\ Target("c1").members = ToSet(entries["c1"]) \cup ToSet(entries["c2"])

-----------------------------------------------------------------------------
(* The update command *)

Exited == stage = "exit"
ConfiguredTarget == sets[list_config.name]
Distinct(es) == \A i, j \in 1..Len(es) : es[i] = es[j] => i = j

\* C12: whenever the update command ends with success, the target set
\* holds exactly the valid entries parsed from the fetched list, also when
\* the list has no valid entry.
C12_SuccessReplacesContents ==
    (Exited /\ exit_code = <<0>>)
        => HoldsExactly(ConfiguredTarget, fetched.entries)

\* C13: for a fetched list with k >= 1 distinct valid entries and an
\* existing empty target, with no command failing for a reason outside the
\* kernel's sets, the command succeeds, update returns k and the target
\* lists exactly those k entries.
C13_CountAndContents ==
    (/\ Exited
     /\ calls.update = 1
     /\ ~envFault["u1"]
     /\ pre["u1"].present
     /\ pre["u1"].members = {}
     /\ Distinct(fetched.entries))
        => /\ exit_code = <<0>>
           /\ ret["u1"] = <<Len(fetched.entries)>>
           /\ HoldsExactly(ConfiguredTarget, fetched.entries)
           /\ Cardinality(ConfiguredTarget.members) = Len(fetched.entries)

\* C14: a transport error ends the run of the command at once: the fetch
\* was attempted once, update was not called, no step of the run up to and
\* including the failing fetch changes a set or moves the engine, and the
\* exit code is 1.
C14_FetchFailureAborts ==
    [][(stage' = "fetch" \/ error' = "FetchError")
        => /\ sets' = sets
           /\ pc' = pc
           /\ error' = "FetchError"
                => /\ stage' = "exit"
                   /\ exit_code' = <<1>>
                   /\ calls' = [fetch |-> 1, update |-> 0]]_vars

\* a run ended by a transport error, with the target holding entries
C14_Witness ==
    /\ Exited
    /\ error = "FetchError"
    /\ exit_code = <<1>>
    /\ list_config.name # ""
    /\ ConfiguredTarget.present
    /\ ConfiguredTarget.members # {}

\* C15: when the fetched list yields at least one valid entry and at least
\* one parse error, and no command fails for a reason outside the kernel's
\* sets, the command calls update with exactly the valid entries, in list
\* order, and ends with success.
C15_ParseErrorsDoNotAbort ==
    (/\ Exited
     /\ fetched.entries # <<>>
     /\ fetched.errors # <<>>
     /\ ~envFault["u1"])
        => /\ calls.update = 1
           /\ entries["u1"] = fetched.entries
           /\ exit_code = <<0>>

-----------------------------------------------------------------------------
(* The parser *)

\* the tokens of the first k lines of a text: the parts _split_entries
\* gives for each line that is neither blank nor a comment line
RECURSIVE TokensUpto(_, _)
TokensUpto(text, k) ==
    IF k = 0 THEN <<>>
    ELSE TokensUpto(text, k - 1)
            \o (LET line == strip(splitlines(text)[k])
                IN  IF line = "" \/ Char(line, 1) \in {"#", ";"} THEN <<>>
                    ELSE split_entries(line))

\* the canonical entries of the valid tokens of a sequence, in its order
RECURSIVE EntriesOf(_)
EntriesOf(toks) ==
    IF toks = <<>> THEN <<>>
    ELSE (IF parse_ip_entry(Head(toks)).ok THEN <<parse_ip_entry(Head(toks)).entry>>
          ELSE <<>>) \o EntriesOf(Tail(toks))

\* the first character of a line that is not whitespace is # or ;
IsCommentLine(line) ==
    \E i \in 1..Len(line) :
        /\ Char(line, i) \in {"#", ";"}
        /\ \A j \in 1..(i - 1) : Char(line, j) \in WhiteSpace

\* C16: at every point of the parse of a text, every token of the lines
\* read so far has produced exactly one outcome: the entries and the errors
\* together are as many as the tokens, the errors as many as the tokens
\* that are not valid, and the entries are the canonical forms of the valid
\* tokens in the order of the text.
C16_OneOutcomePerToken ==
    (stage \in {"parse", "fetched"})
        => /\ Len(fetched.entries) + Len(fetched.errors)
                = Len(TokensUpto(content, line_num))
           /\ Len(fetched.errors)
                = Cardinality({i \in 1..Len(TokensUpto(content, line_num)) :
                                ~parse_ip_entry(TokensUpto(content, line_num)[i]).ok})
           /\ fetched.entries = EntriesOf(TokensUpto(content, line_num))

\* a text is parsed to its end, with a valid entry found after a bad token
C16_Witness ==
    /\ stage = "fetched"
    /\ line_num >= 2
    /\ Len(fetched.entries) >= 2
    /\ fetched.errors # <<>>
    /\ ~parse_ip_entry(TokensUpto(content, line_num)[1]).ok

\* C17: the turn of the loop that reads a line whose first non-whitespace
\* character is # or ; adds no entry and no error, whatever follows the
\* marker.
C17_CommentLineYieldsNothing ==
    [][(/\ stage = "parse"
        /\ line_num' = line_num + 1
        /\ IsCommentLine(splitlines(content)[line_num + 1]))
        => fetched' = fetched]_vars

\* a comment line with an address after the marker has been read, after a
\* line that gave an entry
C17_Witness ==
    /\ stage = "parse"
    /\ line_num = 2
    /\ IsCommentLine(splitlines(content)[2])
    /\ Contains(splitlines(content)[2], "1")
    /\ Len(fetched.entries) = 1
    /\ fetched.errors = <<>>

-----------------------------------------------------------------------------
(* The validator *)

\* the bits of an address, most significant first
Bits(a) ==
    [i \in 1..max_prefixlen(a.version) |->
        LET w == GroupBits(a.version)
        IN  (a.groups[((i - 1) \div w) + 1] \div Pow2(w - 1 - ((i - 1) % w))) % 2]

\* the input is a/p with a a valid address and p a prefix length in decimal
GivenAsPrefix ==
    LET parts == split(strip(cidr), "/")
    IN  /\ Len(parts) = 2
        /\ ip_address(parts[1]) # BadAddr
        /\ IsDigits(parts[2])
        /\ DecValue(parts[2]) <= max_prefixlen(ip_address(parts[1]).version)

GivenAddress == ip_address(split(strip(cidr), "/")[1])
GivenPrefix == DecValue(split(strip(cidr), "/")[2])

\* C18: for a valid address a and prefix length p given as a/p, validate_cidr
\* returns the address whose first p bits are those of a and whose other bits
\* are zero, with p unchanged and the family of a.
C18_HostBitsCleared ==
    (canon # <<>> /\ GivenAsPrefix)
        => /\ canon[1].ok
           /\ canon[1].prefix = GivenPrefix
           /\ canon[1].family = family_of(GivenAddress.version)
           /\ ip_address(canon[1].addr).version = GivenAddress.version
           /\ Bits(ip_address(canon[1].addr))
                = [i \in 1..max_prefixlen(GivenAddress.version) |->
                        IF i <= GivenPrefix THEN Bits(GivenAddress)[i] ELSE 0]

\* 192.168.1.100/24 has been given: 192.168.1.0, 24, inet
C18_Witness ==
    /\ cidr = "192.168.1.100/24"
    /\ canon # <<>>
    /\ canon[1] = [ok |-> TRUE, addr |-> "192.168.1.0", prefix |-> 24, family |-> "inet"]

\* C19: canonicalizing the formatted result of validate_cidr returns the
\* same network address, prefix length and family, and the formatted result
\* is a fixed point of parse_ip_entry.
C19_CanonicalizationIdempotent ==
    (Len(canon) = 2)
        => /\ canon[2] = canon[1]
           /\ parse_ip_entry(Formatted(canon[1])).ok
           /\ parse_ip_entry(Formatted(canon[1])).entry = Formatted(canon[1])

\* a bare IPv6 address written in capitals and in full has been
\* canonicalized twice
C19_Witness ==
    /\ cidr = "2001:DB8:0:0:1:0:0:1"
    /\ Len(canon) = 2
    /\ canon[2].ok
    /\ canon[2].addr = "2001:db8::1:0:0:1"
    /\ canon[2].prefix = 128

\* C20: a valid address without a slash is returned with the same address
\* value (for IPv4 the same text), prefix length 32 and family inet for
\* IPv4, 128 and inet6 for IPv6.
C20_BareAddressInference ==
    (/\ canon # <<>>
     /\ ~Contains(cidr, "/")
     /\ ip_address(strip(cidr)) # BadAddr)
        => /\ canon[1].ok
           /\ ip_address(canon[1].addr) = ip_address(strip(cidr))
           /\ ip_address(strip(cidr)).version = 4
                => /\ canon[1].addr = strip(cidr)
                   /\ canon[1].prefix = 32
                   /\ canon[1].family = "inet"
           /\ ip_address(strip(cidr)).version = 6
                => /\ canon[1].prefix = 128
                   /\ canon[1].family = "inet6"

\* a bare IPv6 address has been given: 128, inet6
C20_Witness ==
    /\ cidr = "2001:db8::1"
    /\ canon # <<>>
    /\ canon[1] = [ok |-> TRUE, addr |-> "2001:db8::1", prefix |-> 128, family |-> "inet6"]

-----------------------------------------------------------------------------
(* The names of lists *)

\* C21: validate_list_name accepts a string if and only if it has 1 to 31
\* characters, its first character is an ASCII letter and every other
\* character is an ASCII letter, a digit, an underscore or a hyphen.
C21_AcceptsExactlyValidNames ==
    (call.op = "validate_list_name" /\ call.pc = "done")
        => (call.returned = "True"
            <=> /\ Len(call.name) >= 1
                /\ Len(call.name) <= 31
                /\ Char(call.name, 1) \in Letters
                /\ \A i \in 2..Len(call.name) : Char(call.name, i) \in NameChars)

-----------------------------------------------------------------------------
(* What update returns *)

-----------------------------------------------------------------------------
(* The order of the steps of update *)

\* the steps of the try block in the order update writes them, the except
\* handler last
StepOrder ==
    <<"create_main", "reap", "create_temp", "add_many", "swap", "destroy_temp", "cleanup">>
Rank(step) == CHOOSE k \in 1..Len(StepOrder) : StepOrder[k] = step

\* the commands a step issues when it runs in full; a step stops early when
\* an existence check answers the other way or a command raises
Pattern(step, n, d) ==
    CASE step = "create_main" -> <<ListArgs(n), CreateArgs(n, d)>>
      [] step = "reap" ->
            <<ListArgs(temp_name(n)), ListArgs(temp_name(n)), DestroyArgs(temp_name(n))>>
      [] step = "create_temp" -> <<ListArgs(temp_name(n)), CreateArgs(temp_name(n), d)>>
      [] step = "add_many" -> <<RestoreArgs>>
      [] step = "swap" -> <<SwapArgs(temp_name(n), n)>>
      [] step = "destroy_temp" -> <<ListArgs(temp_name(n)), DestroyArgs(temp_name(n))>>
      [] step = "cleanup" ->
            <<ListArgs(temp_name(n)), ListArgs(temp_name(n)), DestroyArgs(temp_name(n))>>

\* the argument lists of the commands issued by one step, in order
ArgsOf(log, step) ==
    LET sel == SelectSeq(log, LAMBDA c : c.step = step)
    IN  [i \in 1..Len(sel) |-> sel[i].args]

IsPrefix(a, b) == Len(a) <= Len(b) /\ a = SubSeq(b, 1, Len(a))

\* the steps that have issued a command
StepsOf(log) == {log[i].step : i \in 1..Len(log)}

\* C27: within one update call the commands are issued strictly in the
\* order ensure target (list, create if absent), reap stale staging (list,
\* destroy if present), create staging, bulk load, swap, destroy staging; a
\* swap is issued only after the staging creation and the bulk load of the
\* call ended without an error, and between the creation of the staging set
\* and the swap no command destroys the staging set.
C27_StepsInOrder ==
    (ValidCall("u1") /\ pc["u1"] # "idle")
        => /\ \A i, j \in 1..Len(issued) :
                i < j => Rank(issued[i].step) <= Rank(issued[j].step)
           /\ \A k \in 1..Len(StepOrder) :
                IsPrefix(ArgsOf(issued, StepOrder[k]),
                         Pattern(StepOrder[k], name["u1"], descriptor["u1"]))
           /\ \A k \in 2..6 :
                StepOrder[k] \in StepsOf(issued)
                    => \A h \in 1..(k - 1) :
                        \/ StepOrder[h] \in StepsOf(issued)
                        \/ StepOrder[h] = "add_many" /\ entries["u1"] = <<>>
           /\ \A j \in 1..Len(issued) :
                issued[j].step = "swap"
                    => /\ \A i \in 1..(j - 1) : ~issued[i].raised
                       /\ \E i \in 1..(j - 1) : issued[i].step = "create_temp"
                       /\ entries["u1"] # <<>>
                            => \E i \in 1..(j - 1) :
                                /\ issued[i].step = "add_many"
                                /\ issued[i].input =
                                        restore_input(temp_name(name["u1"]), entries["u1"])
                       /\ \A i \in 1..(j - 1) :
                            issued[i].step \in {"create_temp", "add_many"}
                                => issued[i].args # DestroyArgs(temp_name(name["u1"]))

\* an update of foo that found the target, reaped a stale staging set,
\* created the staging set, loaded it, swapped and destroyed it: all six
\* steps, every command running as the kernel's sets explain
C27_Witness ==
    /\ Returned("u1")
    /\ exc["u1"] = "none"
    /\ name["u1"] = "foo"
    /\ ~envFault["u1"]
    /\ [i \in 1..Len(issued) |-> issued[i].step]
         = <<"create_main", "reap", "reap", "reap", "create_temp",
             "create_temp", "add_many", "swap", "destroy_temp", "destroy_temp">>

-----------------------------------------------------------------------------
(* The operations of the manager *)

\* the operations that start with validate_list_name(name)
Validating == {"create", "destroy", "flush", "list_entries", "get_info"}

\* the manager's call in progress, or just ended, was given a name that
\* fails validation
InvalidCall == call.op \in Validating /\ ~validate_list_name(call.name)
InvalidUpdate == pc["u1"] # "idle" /\ ~validate_list_name(name["u1"])

\* C22: update, create, destroy, flush, list_entries and get_info called
\* with a name that fails validation raise ValidationError, issue no command
\* and change no set.
C22_InvalidNameNoSideEffect ==
    [][/\ InvalidCall' => /\ call'.pc = "done"
                          /\ call'.raised = "ValidationError"
                          /\ call'.returned = ""
                          /\ issued' = <<>>
                          /\ sets' = sets
       /\ InvalidUpdate' => /\ pc'["u1"] = "done"
                            /\ exc'["u1"] = "ValidationError"
                            /\ ret'["u1"] = None
                            /\ issued' = <<>>
                            /\ sets' = sets]_vars

\* destroy("_foo") was rejected while the sets foo and foo_tmp exist, foo
\* with members
C22_Witness ==
    /\ call.op = "destroy"
    /\ call.name = "_foo"
    /\ call.pc = "done"
    /\ call.raised = "ValidationError"
    /\ issued = <<>>
    /\ sets["foo"].members # {}
    /\ sets["foo_tmp"].present

\* a call of op with a valid name has ended
Ended(op) == call.op = op /\ call.pc = "done" /\ validate_list_name(call.name)

\* C24: create is idempotent.  Every command exiting as the kernel's sets
\* dictate: when the named set did not exist, create issues the existence
\* check and one create command, the set then exists, empty, with the given
\* type, family and maxelem, and True is returned; when the set existed,
\* create issues no create command, leaves the set as it was and returns
\* False.  Whatever the commands do, True is returned only after the set
\* was created by the call, False only with the set left as it was, and a
\* call that raises leaves the set as it was.
C24_CreateIdempotent ==
    Ended("create")
        => /\ call.returned = "True"
                => /\ call.pre = NoSet
                   /\ sets[call.name] = [present |-> TRUE, members |-> {}, desc |-> call.desc]
                   /\ ArgsOf(issued, "create")
                        = <<ListArgs(call.name), CreateArgs(call.name, call.desc)>>
           /\ call.returned = "False"
                => /\ call.pre # NoSet
                   /\ sets[call.name] = call.pre
                   /\ ArgsOf(issued, "create") = <<ListArgs(call.name)>>
           /\ call.raised # "none" => sets[call.name] = call.pre
           /\ ~call.fault
                => /\ call.raised = "none"
                   /\ call.returned = (IF call.pre = NoSet THEN "True" ELSE "False")

\* create returned False for a set that has members and another family
\* than the one passed
C24_Witness ==
    /\ Ended("create")
    /\ call.returned = "False"
    /\ call.pre.members # {}
    /\ call.pre.desc # call.desc
    /\ sets[call.name] = call.pre

-----------------------------------------------------------------------------
(* The warnings of the update command *)

\* C26: for n parse errors the update command prints exactly min(n, 10)
\* warnings, one per error and in the order of the errors, and when n > 10
\* exactly one more line stating the number n - 10 of the errors left out;
\* nothing else follows but the notice that no valid entry was found, and
\* with at least one valid entry update is called whatever n is.
C26_BoundedWarnings ==
    stage \in {"update", "exit"}
        => LET n == Len(fetched.errors)
               shown == IF n > 10 THEN 11 ELSE n
           IN  /\ Len(warnings) >= shown
               /\ \A i \in 1..n :
                    i <= 10 => warnings[i] = "Warning: " \o fetched.errors[i]
               /\ n > 10 => warnings[11] = "... and " \o DecStr(n - 10) \o " more warnings"
               /\ SubSeq(warnings, shown + 1, Len(warnings))
                    = (IF fetched.entries = <<>> /\ error = "none"
                       THEN <<"Warning: No valid entries found">> ELSE <<>>)
               /\ fetched.entries # <<>> => calls.update = 1

\* a text with 11 bad tokens and one entry: ten warnings, the line
\* "... and 1 more warnings", and the update ran to its end
C26_Witness ==
    /\ stage = "exit"
    /\ Len(fetched.errors) = 11
    /\ Len(warnings) = 11
    /\ warnings[11] = "... and 1 more warnings"
    /\ fetched.entries = <<"10.0.0.0/8">>
    /\ calls.update = 1
    /\ exit_code = <<0>>

-----------------------------------------------------------------------------
(* The staging set *)

\* C28: at the swap step of every update call the staging set and the
\* target set have equal descriptors (type, family, maxelem), also when the
\* target existed before the call with another descriptor than the one
\* passed.
C28_StagingDescriptorOfTarget ==
    (ValidCall("u1") /\ pc["u1"] = "swap")
        => /\ Staging("u1").present
           /\ Target("u1").present
           /\ Staging("u1").desc = Target("u1").desc

\* C29: an update call whose first step, the creation of the missing
\* target, fails returns with no set created, modified or destroyed: the
\* target is still absent and a set with the staging name left over from
\* earlier is as it was.
C29_FirstStepFailureNoSideEffect ==
    (/\ Returned("u1")
     /\ ValidCall("u1")
     /\ pre["u1"] = NoSet
     /\ failedStep["u1"] = "create_main")
        => /\ exc["u1"] # "none"
           /\ Target("u1") = pre["u1"]
           /\ Staging("u1") = preTemp["u1"]

-----------------------------------------------------------------------------
(* The bulk load *)

\* the add directives for the entries es and the set n, one per entry and
\* in the order of es
Directives(n, es) == [k \in 1..Len(es) |-> "add " \o n \o " " \o es[k] \o " -exist"]

\* the restore commands in a record of commands
Restores(log) == SelectSeq(log, LAMBDA c : c.args = RestoreArgs)

\* C30: the bulk load of update feeds the entries to the staging set in one
\* restore batch, one directive "add <staging> <entry> -exist" per entry in
\* the order of the list; a list with duplicates does not make the update
\* fail, and after a successful update whose commands all exited as the
\* kernel dictates the target holds exactly the distinct entries of the
\* list; add_many with an empty list issues no command and returns 0.
C30_BulkLoad ==
    /\ (ValidCall("u1") /\ pc["u1"] # "idle")
            => /\ Len(Restores(issued)) <= 1
               /\ \A i \in 1..Len(issued) :
                    issued[i].args = RestoreArgs
                        => /\ entries["u1"] # <<>>
                           /\ splitlines(issued[i].input)
                                = Directives(temp_name(name["u1"]), entries["u1"])
    /\ (/\ Returned("u1")
        /\ ValidCall("u1")
        /\ ~envFault["u1"]
        /\ descriptor["u1"].family = "inet"
        /\ pre["u1"] # NoSet => pre["u1"].desc = descriptor["u1"])
            => exc["u1"] = "none"
    /\ (Returned("u1") /\ ValidCall("u1") /\ ~envFault["u1"] /\ exc["u1"] = "none")
            => HoldsExactly(Target("u1"), entries["u1"])
    /\ (call.op = "add_many" /\ call.pc = "done" /\ call.entries = <<>>)
            => /\ call.returned = "0"
               /\ issued = <<>>
               /\ sets[call.name] = call.pre

-----------------------------------------------------------------------------
(* The value update returns and the members of the target *)

\* C31: the value returned by a successful update is the number of members
\* the target set holds after the call, for every entry list.
C31_ReturnsNumberOfMembers ==
    (Returned("u1") /\ ValidCall("u1") /\ exc["u1"] = "none" /\ ~envFault["u1"])
        => ret["u1"] = <<Cardinality(Members(sets, name["u1"]))>>

-----------------------------------------------------------------------------
(* The tokens of a line *)

\* the text of a line before the first # or ;
BeforeComment(line) ==
    IF FirstOf(line, {"#", ";"}) = 0 THEN line
    ELSE SubSeq(line, 1, FirstOf(line, {"#", ";"}) - 1)

\* the maximal runs of characters of s that are neither whitespace nor a comma
RECURSIVE Runs(_)
Runs(s) ==
    IF s = "" THEN <<>>
    ELSE IF Char(s, 1) \in WhiteSpace \cup {","} THEN Runs(SubSeq(s, 2, Len(s)))
    ELSE IF FirstOf(s, WhiteSpace \cup {","}) = 0 THEN <<s>>
    ELSE <<SubSeq(s, 1, FirstOf(s, WhiteSpace \cup {","}) - 1)>>
            \o Runs(SubSeq(s, FirstOf(s, WhiteSpace \cup {","}), Len(s)))

\* the tokens of a line by the reference
ReferenceTokens(line) ==
    LET t == strip(BeforeComment(line))
    IN  IF t = "" THEN <<>>
        ELSE IF FirstOf(t, WhiteSpace \cup {","}) # 0 THEN Runs(t)
        ELSE <<t>>

\* the line the parse loop has just read, trimmed
LineRead == strip(splitlines(content)[line_num])

\* C32: the tokens _split_entries gives for a line that is neither blank
\* nor a comment line are those of the reference: the text before the first
\* # or ;, trimmed, split on runs of whitespace and commas with the empty
\* pieces dropped if it contains whitespace or a comma, one token otherwise,
\* and no token if nothing is left.
C32_TokensAsReference ==
    (stage = "parse" /\ line_num >= 1 /\ LineRead # "" /\ ~IsCommentLine(LineRead))
        => split_entries(LineRead) = ReferenceTokens(LineRead)

\* the tokens of a sequence that are not valid entries, in its order
RECURSIVE BadTokens(_)
BadTokens(toks) ==
    IF toks = <<>> THEN <<>>
    ELSE (IF parse_ip_entry(Head(toks)).ok THEN <<>> ELSE <<Head(toks)>>)
            \o BadTokens(Tail(toks))

\* the tokens of physical line k of a text
TokensOfLine(text, k) ==
    LET line == strip(splitlines(text)[k])
    IN  IF line = "" \/ IsCommentLine(line) THEN <<>> ELSE split_entries(line)

\* one error 'Line <k>: <message>' for each bad token of the first k
\* physical lines of a text, in the order of the text
RECURSIVE ErrorsUpto(_, _)
ErrorsUpto(text, k) ==
    IF k = 0 THEN <<>>
    ELSE ErrorsUpto(text, k - 1)
            \o [i \in 1..Len(BadTokens(TokensOfLine(text, k))) |->
                    "Line " \o DecStr(k) \o ": "
                        \o error_message(BadTokens(TokensOfLine(text, k))[i])]

\* C33: at every point of the parse the errors are, in the order of the
\* text, one 'Line <n>: <message>' for each bad token of the lines read,
\* with n the 1-based index of the token's physical line, blank and comment
\* lines counted.
C33_ErrorsCarryPhysicalLine ==
    (stage \in {"parse", "fetched"})
        => fetched.errors = ErrorsUpto(content, line_num)

\* a text whose first line is blank or a comment and whose second line
\* has two bad tokens is parsed to its end: both errors name line 2
C33_Witness ==
    /\ stage = "fetched"
    /\ line_num = 2
    /\ TokensOfLine(content, 1) = <<>>
    /\ Len(BadTokens(TokensOfLine(content, 2))) = 2
    /\ Len(fetched.errors) = 2
    /\ \A i \in 1..2 : SubSeq(fetched.errors[i], 1, 8) = "Line 2: "

-----------------------------------------------------------------------------
(* The staging name *)

\* C35: for every name validate_list_name accepts, the staging name update
\* works with is itself a valid set name, has at most 31 characters and is
\* not the name of the target.
C35_StagingNameValidAndDistinct ==
    ValidCall("u1")
        => /\ validate_list_name(temp_name(name["u1"]))
           /\ Len(temp_name(name["u1"])) <= NAME_MAX
           /\ temp_name(name["u1"]) # name["u1"]

\* C36: an update of one list changes the target of no other list: the
\* call, its commands exiting as the kernel dictates, returns with the set
\* of the list named <name>_tmp (foo_tmp for an update of foo) as it was
\* when the call began, so that this list still holds the entries of its
\* own last update.
C36_OtherListsUntouched ==
    (/\ Returned("u1")
     /\ ValidCall("u1")
     /\ ~envFault["u1"]
     /\ validate_list_name(temp_name(name["u1"]))
     /\ temp_name(name["u1"]) # name["u1"])
        => SameSet(Staging("u1"), preTemp["u1"])

-----------------------------------------------------------------------------
(* The families of the entries *)

\* C37: every entry the update command hands to update has the family of
\* the set the list is configured with.
C37_EntriesHaveConfiguredFamily ==
    (stage \in {"update", "exit"} /\ calls.update = 1)
        => \A i \in 1..Len(entries["u1"]) :
                EntryFamily(entries["u1"][i]) = list_config.desc.family

-----------------------------------------------------------------------------
(* A list without a valid entry *)

\* C39: when the fetched text yields no valid entry, the update command
\* ends at once with exit code 0 after the warning "No valid entries
\* found", without calling update and without a control-plane command:
\* every set, the target included, is left as it is, present or absent.
C39_NoEntryNoCommand ==
    [][(stage = "fetched" /\ fetched.entries = <<>>)
        => /\ stage' = "exit"
           /\ exit_code' = <<0>>
           /\ warnings' # <<>>
           /\ warnings'[Len(warnings')] = "Warning: No valid entries found"
           /\ calls'.update = 0
           /\ issued' = <<>>
           /\ sets' = sets]_vars

\* a run whose text held bad tokens only has ended with exit code 0, the
\* target set of the list being present with the members of an earlier run
C39_Witness ==
    /\ stage = "exit"
    /\ exit_code = <<0>>
    /\ content # ""
    /\ line_num = Len(splitlines(content))
    /\ fetched.entries = <<>>
    /\ fetched.errors # <<>>
    /\ calls = [fetch |-> 1, update |-> 0]
    /\ issued = <<>>
    /\ sets[list_config.name].present
    /\ sets[list_config.name].members # {}

-----------------------------------------------------------------------------
(* The list commands *)

\* the unit files create_units writes for a record, and the timer as the
\* enabled flag of a record asks for it
UnitsFor(record) == [service |-> TRUE, timer |-> record.periodic]
TimerFor(record) == [enabled |-> record.enabled, active |-> record.enabled]

C38_TimerFollowsFlag ==
    (last.exit_code # None /\ last.clean)
        => \A n \in CliNames :
                configs[n].present => (timers[n].enabled <=> configs[n].enabled)

\* C40: a create command that ends with an error other than "already
\* exists" leaves neither a record nor unit files for its name.
C40_CreateAllOrNothing ==
    [][(Running("create") /\ ~configs[last.name].present /\ last'.exit_code = <<1>>)
        => /\ ~configs'[last.name].present
           /\ unit_files'[last.name] = NoUnits]_vars

====
